---- MODULE Spec2Model ----
(***************************************************************************)
(* The aggregation engine of the sampling CPU profiler                     *)
(* (profile-generator.cc): the address-range index CodeMap, the            *)
(* descriptor CodeEntry, and the call tree ProfileTree / ProfileNode.      *)
(***************************************************************************)
EXTENDS Integers, Sequences, FiniteSets, TLC

\* ------------------------------------------------------------------ bounds
\* Addresses handed to the CodeMap are 0..MaxAddr.
MaxAddr == 2
\* Code sizes are 0..MaxSize (the parameter is an unsigned, so 0 is a value).
MaxSize == 2
\* CodeEntry instances registered with the CodeMap are 1..NumEntries.
NumEntries == 2

\* CodeEntry instances compared with one another are 1..NumInstances.
NumInstances == 3
\* Script ids are 0..MaxScriptId; start positions are 0..MaxPosition.
MaxScriptId == 1
MaxPosition == 1
\* Interned strings (names, resource names) are 1..NumNames.
NumNames == 2
\* Source lines are 1..MaxLine.
MaxLine == 1

\* A path handed to AddPathFromEnd holds at most MaxPath entries.
MaxPath == 2
\* AddPathFromEnd is called at most MaxSamples times on a tree.
MaxSamples == 2

\* CpuProfilesCollection::kMaxSimultaneousProfiles, 100 in the header, scaled
\* down.
kMaxSimultaneousProfiles == 2
\* A run makes at most MaxCalls calls on the CpuProfilesCollection and the
\* code entries.
MaxCalls == 4
\* A run of the two threads makes at most MaxLockCalls calls.
MaxLockCalls == 3
\* A sample has at most MaxFrames return addresses on its stack.
MaxFrames == 1

\* nullptr / NULL
NULL == 0
\* v8::UnboundScript::kNoScriptId
kNoScriptId == 0
\* v8::CpuProfileNode::kNoLineNumberInfo
kNoLineNumberInfo == 0
\* CodeEntry::kEmptyNamePrefix, CodeEntry::kEmptyResourceName: the interned
\* empty strings.
kEmptyNamePrefix == 0
kEmptyResourceName == 0
\* CodeEventListener::FUNCTION_TAG, CodeEventListener::BUILTIN_TAG
FUNCTION_TAG == 11
BUILTIN_TAG == 10
\* CodeEntry::kNoDeoptReason: the interned empty string.
kNoDeoptReason == 0
\* ProfileTree::root_: the node allocated first.
root_ == 1
\* &ProfileTree::root_entry_, and the interned string "(root)".
root_entry_ == 3
kRootEntryName == 9
\* The entries the ProfileGenerator constructor makes, in its order, and
\* their interned names.
program_entry_ == 4
idle_entry_ == 5
gc_entry_ == 6
unresolved_entry_ == 7
kProgramEntryName == 10
kIdleEntryName == 11
kGarbageCollectorEntryName == 12
kUnresolvedFunctionName == 13

Addr == 0..MaxAddr
Sizes == 0..MaxSize
Entries == 1..NumEntries
Names == 1..NumNames

\* ------------------------------------------------------------------ state
VARIABLES
  code_map,   \* CodeMap::code_map_: start address -> CodeEntryInfo(entry, size)
  pre_map,    \* code_map_ when the recorded operation was called
  last_op,    \* the recorded CodeMap operation: its name, arguments and result
  code_entries, \* the CodeEntry instances: instance -> its fields
  last_call,  \* the recorded call on a CodeEntry or a ProfileTree
  tree,       \* the ProfileTree: its nodes by address, and next_node_id_
  deopt_reason, \* CodeEntry::deopt_reason_ of each instance
  pre_tree,   \* tree when the recorded call was made
  pre_deopt,  \* deopt_reason when the recorded call was made
  samples,    \* the number of AddPathFromEnd calls made on the tree
  coll,       \* the CpuProfilesCollection and the CpuProfile objects it made
  pre_coll,   \* coll when the recorded call was made
  deopts,     \* the number of set_deopt_info calls made
  calls,      \* the number of calls made on the CpuProfilesCollection
  traversal,  \* TraverseDepthFirst: its stack, its callbacks so far, its phase
  thread      \* the VM thread and the sampler thread: position and locals

mapVars == <<code_map, pre_map, last_op>>

entryVars == <<code_entries, last_call>>

treeVars == <<tree, deopt_reason, pre_tree, pre_deopt, samples>>

collVars == <<coll, pre_coll, deopts, calls>>

vars == <<mapVars, entryVars, treeVars, collVars, traversal, thread>>

\* ------------------------------------------------------- std::map iterators
\* An iterator of the ordered map is the rank of its key, 1..n; end() is n+1.
map_begin(m) == 1

map_end(m) == Cardinality(DOMAIN m) + 1

\* The key an iterator points at.
KeyAt(m, it) ==
  CHOOSE k \in DOMAIN m : Cardinality({j \in DOMAIN m : j < k}) = it - 1

\* std::map::upper_bound: the first element whose key is greater than k.
upper_bound(m, k) == Cardinality({j \in DOMAIN m : j <= k}) + 1

\* std::map::erase(first, last): removes the elements in [first, last).
map_erase(m, first, last) ==
  LET keep == {k \in DOMAIN m :
                 LET r == Cardinality({j \in DOMAIN m : j < k}) + 1
                 IN  r < first \/ r >= last}
  IN  [k \in keep |-> m[k]]

\* std::map::insert(value): inserts only if the key is not yet present.
map_insert(m, k, v) ==
  IF k \in DOMAIN m THEN m
  ELSE [j \in DOMAIN m \cup {k} |-> IF j = k THEN v ELSE m[j]]

CodeEntryInfo(entry, size) == [entry |-> entry, size |-> size]

\* ---------------------------------------------------------------- CodeMap
RECURSIVE ScanRight(_, _, _)
\* while (right != code_map_.end() && right->first < end) ++right;
ScanRight(m, right, end) ==
  IF right # map_end(m) /\ KeyAt(m, right) < end
  THEN ScanRight(m, right + 1, end)
  ELSE right

\* A version that forgets the entry starting before `start`.
LeftBoundNoStepBack(m, start) == upper_bound(m, start)

\* The entry before `start` is kept out of the erased range when it ends at
\* or before `start`.
LeftBound(m, start) ==
  LET left == upper_bound(m, start)
  IN  IF left # map_begin(m)
      THEN LET l == left - 1
           IN  IF KeyAt(m, l) + m[KeyAt(m, l)].size <= start THEN l + 1 ELSE l
      ELSE left

DeleteAllCoveredCode(m, start, end) ==
  LET left == LeftBound(m, start)
      right == ScanRight(m, left, end)
  IN  map_erase(m, left, right)

AddCode(m, addr, entry, size) ==
  map_insert(DeleteAllCoveredCode(m, addr, addr + size), addr,
             CodeEntryInfo(entry, size))

\* A version whose end test is off by one.
FindEntryInclusiveEnd(m, addr) ==
  LET it == upper_bound(m, addr)
  IN  IF it = map_begin(m) THEN NULL
      ELSE LET k == KeyAt(m, it - 1)
               end_address == k + m[k].size
           IN  IF addr <= end_address THEN m[k].entry ELSE NULL

FindEntry(m, addr) ==
  LET it == upper_bound(m, addr)
  IN  IF it = map_begin(m) THEN NULL
      ELSE LET k == KeyAt(m, it - 1)
               end_address == k + m[k].size
           IN  IF addr < end_address THEN m[k].entry ELSE NULL

\* A version that reads the entry with operator[] instead of find(), so a
\* missing key yields a default-constructed CodeEntryInfo.
MoveCodeSubscript(m, from, to) ==
  IF from = to THEN m
  ELSE LET info == IF from \in DOMAIN m THEN m[from] ELSE CodeEntryInfo(NULL, 0)
           erased == [k \in DOMAIN m \ {from} |-> m[k]]
       IN  AddCode(erased, to, info.entry, info.size)

MoveCode(m, from, to) ==
  IF from = to THEN m
  ELSE IF from \notin DOMAIN m THEN m
  ELSE LET info == m[from]
           erased == [k \in DOMAIN m \ {from} |-> m[k]]
       IN  AddCode(erased, to, info.entry, info.size)

\* -------------------------------------------------------------- CodeEntry
\* The fields of a CodeEntry that GetHash and IsSameFunctionAs read. Strings
\* are interned, so the code compares the pointers; a string is its number.
CodeEntry(tag, name_prefix, name, resource_name, line_number, script_id, position) ==
  [tag |-> tag, name_prefix |-> name_prefix, name |-> name,
   resource_name |-> resource_name, line_number |-> line_number,
   script_id |-> script_id, position |-> position]

IsSameFunctionAs(this, entry) ==
  LET t == code_entries[this]
      e == code_entries[entry]
  IN  IF this = entry THEN TRUE
      ELSE IF t.script_id # kNoScriptId
           THEN t.script_id = e.script_id /\ t.position = e.position
      ELSE /\ t.name_prefix = e.name_prefix
           /\ t.name = e.name
           /\ t.resource_name = e.resource_name
           /\ t.line_number = e.line_number

\* The bits a hash value has set; XOR is the symmetric difference.
Xor(h1, h2) == (h1 \ h2) \cup (h2 \ h1)

\* ComputeIntegerHash(key, kZeroHashSeed): distinct keys have distinct hashes,
\* and no XOR of hashes of distinct keys cancels.
ComputeIntegerHash(key) == {key}

\* reinterpret_cast<uintptr_t>(string): interned strings live at distinct
\* addresses, apart from the small integers used as ids, positions and lines.
AddressOf(string) == 100 + string

GetHash(entry) ==
  LET e == code_entries[entry]
      hash == ComputeIntegerHash(e.tag)
  IN  IF e.script_id # kNoScriptId
      THEN Xor(Xor(hash, ComputeIntegerHash(e.script_id)),
               ComputeIntegerHash(e.position))
      ELSE Xor(Xor(Xor(Xor(hash,
                           ComputeIntegerHash(AddressOf(e.name_prefix))),
                       ComputeIntegerHash(AddressOf(e.name))),
                   ComputeIntegerHash(AddressOf(e.resource_name))),
               ComputeIntegerHash(e.line_number))

\* ProfileNode::CodeEntriesMatch(entry1, entry2)
CodeEntriesMatch(entry1, entry2) == IsSameFunctionAs(entry1, entry2)

\* ProfileNode::CodeEntryHash(entry)
CodeEntryHash(entry) == GetHash(entry)

\* ------------------------------------------------ ProfileNode, ProfileTree
NoLineTicks == [l \in {} |-> 0]

\* new ProfileNode(tree, entry): id_ is tree->next_node_id().
ProfileNode(t, entry) ==
  [entry |-> entry, id |-> t.next_node_id_,
   self_ticks |-> 0, children |-> {}, children_list |-> <<>>,
   line_ticks |-> NoLineTicks, deopt_infos |-> <<>>]

\* The children of `node` that a lookup of `entry` in children_ matches:
\* base::HashMap compares the hash, then calls the match function with the
\* looked-up key first.
Matching(t, node, entry) ==
  {c \in t.nodes[node].children :
     /\ CodeEntryHash(entry) = CodeEntryHash(t.nodes[c].entry)
     /\ CodeEntriesMatch(entry, t.nodes[c].entry)}

\* children_.Lookup(entry, hash): the match inserted first, or NULL.
Lookup(t, node, entry) ==
  LET found == Matching(t, node, entry)
  IN  IF found = {} THEN NULL
      ELSE CHOOSE c \in found : \A d \in found : c <= d

FindChild(t, node, entry) == Lookup(t, node, entry)

\* node = new ProfileNode(tree_, entry); map_entry->value = node;
\* children_list_.Add(node). The node is allocated after all others.
AddChild(t, node, entry) ==
  LET a == Len(t.nodes) + 1
  IN  [tree |-> [nodes |-> Append([t.nodes EXCEPT
                                     ![node].children = @ \cup {a},
                                     ![node].children_list = Append(@, a)],
                                  ProfileNode(t, entry)),
                 next_node_id_ |-> t.next_node_id_ + 1],
       node |-> a]

\* A version that never finds the child.
FindOrAddChildAlwaysAdd(t, node, entry) == AddChild(t, node, entry)

\* Returns the tree after the call and the node returned.
FindOrAddChild(t, node, entry) ==
  LET child == Lookup(t, node, entry)
  IN  IF child # NULL THEN [tree |-> t, node |-> child]
      ELSE AddChild(t, node, entry)

\* ProfileTree::ProfileTree: next_node_id_(1), then the root node takes id 1.
ProfileTree ==
  [nodes |-> <<ProfileNode([next_node_id_ |-> 1], root_entry_)>>,
   next_node_id_ |-> 2]

\* A version with a count of one bit.
IncrementSelfTicksOneBit(t, node) ==
  [t EXCEPT !.nodes[node].self_ticks = (@ + 1) % 2]

IncrementSelfTicks(t, node) ==
  [t EXCEPT !.nodes[node].self_ticks = @ + 1]

\* A version that counts a line once.
IncrementLineTicksOnce(t, node, src_line) ==
  IF src_line = kNoLineNumberInfo THEN t
  ELSE [t EXCEPT !.nodes[node].line_ticks =
          [l \in DOMAIN @ \cup {src_line} |->
             IF l = src_line THEN 1 ELSE @[l]]]

IncrementLineTicks(t, node, src_line) ==
  IF src_line = kNoLineNumberInfo THEN t
  ELSE LET ticks == t.nodes[node].line_ticks
       IN  [t EXCEPT !.nodes[node].line_ticks =
              [l \in DOMAIN ticks \cup {src_line} |->
                 (IF l \in DOMAIN ticks THEN ticks[l] ELSE 0)
                 + (IF l = src_line THEN 1 ELSE 0)]]

has_deopt_info(deopt, entry) == deopt[entry] # kNoDeoptReason

\* CodeEntry::GetDeoptInfo of an entry with no inlined frames recorded.
GetDeoptInfo(deopt, entry) ==
  [deopt_reason |-> deopt[entry],
   stack |-> <<[script_id |-> code_entries[entry].script_id,
                position |-> code_entries[entry].position]>>]

\* A version that leaves the deopt information on the entry.
CollectDeoptInfoNoClear(t, deopt, node, entry) ==
  [tree |-> [t EXCEPT !.nodes[node].deopt_infos =
                        Append(@, GetDeoptInfo(deopt, entry))],
   deopt |-> deopt]

\* Returns the tree and the entries' deopt reasons after the call.
CollectDeoptInfo(t, deopt, node, entry) ==
  [tree |-> [t EXCEPT !.nodes[node].deopt_infos =
                        Append(@, GetDeoptInfo(deopt, entry))],
   deopt |-> [deopt EXCEPT ![entry] = kNoDeoptReason]]

RECURSIVE WalkPathNoSkip(_, _, _, _, _)
\* A version that does not skip the NULL entries of the path.
WalkPathNoSkip(t, node, last_entry, path, i) ==
  IF i = 0 THEN [tree |-> t, node |-> node, last_entry |-> last_entry]
  ELSE IF path[i] = NULL THEN [tree |-> t, node |-> node,
                               last_entry |-> last_entry]
  ELSE LET r == FindOrAddChild(t, node, path[i])
       IN  WalkPathNoSkip(r.tree, r.node, path[i], path, i - 1)

RECURSIVE WalkPath(_, _, _, _, _)
\* for (auto it = path.rbegin(); it != path.rend(); ++it): i is the index of
\* *it, Len(path) down to 1; 0 is rend().
WalkPath(t, node, last_entry, path, i) ==
  IF i = 0 THEN [tree |-> t, node |-> node, last_entry |-> last_entry]
  ELSE IF path[i] = NULL THEN WalkPath(t, node, last_entry, path, i - 1)
  ELSE LET r == FindOrAddChild(t, node, path[i])
       IN  WalkPath(r.tree, r.node, path[i], path, i - 1)

\* Returns the tree and the deopt reasons after the call, and the node
\* returned.
AddPathFromEnd(t, deopt, path, src_line, update_stats) ==
  LET w == WalkPath(t, root_, NULL, path, Len(path))
      c == IF w.last_entry # NULL /\ has_deopt_info(deopt, w.last_entry)
           THEN CollectDeoptInfo(w.tree, deopt, w.node, w.last_entry)
           ELSE [tree |-> w.tree, deopt |-> deopt]
      u == IF update_stats
           THEN IF src_line # kNoLineNumberInfo
                THEN IncrementLineTicks(IncrementSelfTicks(c.tree, w.node),
                                        w.node, src_line)
                ELSE IncrementSelfTicks(c.tree, w.node)
           ELSE c.tree
  IN  [tree |-> u, deopt |-> c.deopt, node |-> w.node]

\* ------------------------------------------------------ TraverseDepthFirst
\* Position::Position(node)
Position(node) == [node |-> node, child_idx_ |-> 0]

\* Position::current_child: children()->at(child_idx_), counted from 0.
current_child(t, pos) == t.nodes[pos.node].children_list[pos.child_idx_ + 1]

\* A version that stops one child early.
has_current_childOffByOne(t, pos) ==
  pos.child_idx_ < Len(t.nodes[pos.node].children_list) - 1

\* Position::has_current_child
has_current_child(t, pos) ==
  pos.child_idx_ < Len(t.nodes[pos.node].children_list)

\* Position::next_child
next_child(pos) == [pos EXCEPT !.child_idx_ = @ + 1]

\* A call of the callback.
Callback(cb, parent, node) == [cb |-> cb, parent |-> parent, node |-> node]

\* A callback that deletes the child before the traversal descends into it.
DeleteNodesCallbackOnDescent(trace) ==
  LET hits == SelectSeq(trace, LAMBDA c : c.cb = "BeforeTraversingChild")
  IN  [i \in 1..Len(hits) |-> hits[i].node]

\* DeleteNodesCallback: AfterAllChildrenTraversed(node) { delete node; }, the
\* other two callbacks are empty. The nodes deleted by the hits of a trace,
\* in the order of the deletes.
DeleteNodesCallback(trace) ==
  LET hits == SelectSeq(trace, LAMBDA c : c.cb = "AfterAllChildrenTraversed")
  IN  [i \in 1..Len(hits) |-> hits[i].node]

\* No traversal has begun.
NoTraversal == [phase |-> "idle", stack |-> <<>>, trace |-> <<>>]

\* List<Position> stack(10); stack.Add(Position(root_));
TraverseBegin(tr) ==
  [tr EXCEPT !.phase = "running", !.stack = <<Position(root_)>>]

\* One turn of while (stack.length() > 0); the loop is left when the stack
\* is empty.
TraverseLoop(t, tr) ==
  LET n == Len(tr.stack)
      current == tr.stack[n]
  IN  IF n = 0 THEN [tr EXCEPT !.phase = "done"]
      ELSE IF has_current_child(t, current)
      THEN [tr EXCEPT
              !.trace = Append(@, Callback("BeforeTraversingChild",
                                           current.node,
                                           current_child(t, current))),
              !.stack = Append(@, Position(current_child(t, current)))]
      ELSE IF n > 1
      THEN [tr EXCEPT
              !.trace = @ \o
                <<Callback("AfterAllChildrenTraversed", NULL, current.node),
                  Callback("AfterChildTraversed", tr.stack[n - 1].node,
                           current.node)>>,
              !.stack = [i \in 1..(n - 1) |->
                           IF i = n - 1 THEN next_child(tr.stack[i])
                           ELSE tr.stack[i]]]
      ELSE [tr EXCEPT
              !.trace = Append(@, Callback("AfterAllChildrenTraversed", NULL,
                                           current.node)),
              !.stack = <<>>]

\* ------------------------------------------ CpuProfile, CpuProfilesCollection
\* Titles are compared with strcmp: a title is its number, 0 the empty one.
Titles == 0..kMaxSimultaneousProfiles

\* CpuProfile::CpuProfile. end_time_ counts the times it was set.
CpuProfile(title, record_samples) ==
  [title |-> title, record_samples |-> record_samples, top_down |-> ProfileTree,
   samples |-> <<>>, timestamps |-> <<>>, end_time_ |-> 0]

\* A version that logs the root instead of the node AddPathFromEnd returned.
SampledRoot(profile, timestamp, r) ==
  [profile |-> IF profile.record_samples /\ timestamp # 0
               THEN [profile EXCEPT !.top_down = r.tree,
                                    !.timestamps = Append(@, timestamp),
                                    !.samples = Append(@, root_)]
               ELSE [profile EXCEPT !.top_down = r.tree],
   deopt |-> r.deopt]

\* A version that logs the sample whether record_samples_ is set or not.
SampledAlways(profile, timestamp, r) ==
  [profile |-> IF timestamp # 0
               THEN [profile EXCEPT !.top_down = r.tree,
                                    !.timestamps = Append(@, timestamp),
                                    !.samples = Append(@, r.node)]
               ELSE [profile EXCEPT !.top_down = r.tree],
   deopt |-> r.deopt]

\* The lines of AddPath after top_down_.AddPathFromEnd returned r.
Sampled(profile, timestamp, r) ==
  [profile |-> IF profile.record_samples /\ timestamp # 0
               THEN [profile EXCEPT !.top_down = r.tree,
                                    !.timestamps = Append(@, timestamp),
                                    !.samples = Append(@, r.node)]
               ELSE [profile EXCEPT !.top_down = r.tree],
   deopt |-> r.deopt]

\* Returns the profile and the entries' deopt reasons after the call. A null
\* timestamp is 0.
AddPath(profile, deopt, timestamp, path, src_line, update_stats) ==
  Sampled(profile, timestamp,
          AddPathFromEnd(profile.top_down, deopt, path, src_line, update_stats))

\* A version that leaves end_time_ alone.
CalculateTotalTicksAndSamplingRateNone(profile) == profile

CalculateTotalTicksAndSamplingRate(profile) ==
  [profile EXCEPT !.end_time_ = @ + 1]

\* CpuProfilesCollection::CpuProfilesCollection: the lists are empty and the
\* semaphore has count 1; heap holds the CpuProfile objects by address.
CpuProfilesCollection ==
  [heap |-> <<>>, current_profiles_ |-> <<>>, finished_profiles_ |-> <<>>,
   current_profiles_semaphore_ |-> 1, unreachable |-> FALSE]

\* List::Remove(i), with i counted from 1.
Remove(list, i) ==
  [j \in 1..(Len(list) - 1) |-> IF j < i THEN list[j] ELSE list[j + 1]]

\* The places of current_profiles_ whose profile has the title.
TitleMatches(c, title) ==
  {i \in 1..Len(c.current_profiles_) :
     c.heap[c.current_profiles_[i]].title = title}

\* A version that does not look for the title.
StartProfilingNoTitleCheck(c, title, record_samples) ==
  IF Len(c.current_profiles_) >= kMaxSimultaneousProfiles
  THEN [coll |-> c, ret |-> FALSE]
  ELSE [coll |-> [c EXCEPT
                    !.heap = Append(@, CpuProfile(title, record_samples)),
                    !.current_profiles_ = Append(@, Len(c.heap) + 1)],
        ret |-> TRUE]

\* A version that admits one session more.
StartProfilingOneMore(c, title, record_samples) ==
  IF Len(c.current_profiles_) > kMaxSimultaneousProfiles
  THEN [coll |-> c, ret |-> FALSE]
  ELSE IF TitleMatches(c, title) # {}
  THEN [coll |-> c, ret |-> TRUE]
  ELSE [coll |-> [c EXCEPT
                    !.heap = Append(@, CpuProfile(title, record_samples)),
                    !.current_profiles_ = Append(@, Len(c.heap) + 1)],
        ret |-> TRUE]

\* Returns the collection after the call and the value returned. The
\* semaphore is taken and released within the call.
StartProfiling(c, title, record_samples) ==
  IF Len(c.current_profiles_) >= kMaxSimultaneousProfiles
  THEN [coll |-> c, ret |-> FALSE]
  ELSE IF TitleMatches(c, title) # {}
  THEN [coll |-> c, ret |-> TRUE]
  ELSE [coll |-> [c EXCEPT
                    !.heap = Append(@, CpuProfile(title, record_samples)),
                    !.current_profiles_ = Append(@, Len(c.heap) + 1)],
        ret |-> TRUE]

\* A version that scans from the front.
StopIndexFirst(c, title) ==
  LET found == IF title = 0 THEN 1..Len(c.current_profiles_)
               ELSE TitleMatches(c, title)
  IN  IF found = {} THEN 0
      ELSE CHOOSE i \in found : \A j \in found : j >= i

\* for (i = length - 1; i >= 0; --i): the last place that matches, or 0.
StopIndex(c, title) ==
  LET found == IF title = 0 THEN 1..Len(c.current_profiles_)
               ELSE TitleMatches(c, title)
  IN  IF found = {} THEN 0
      ELSE CHOOSE i \in found : \A j \in found : j <= i

\* A version that finishes whatever the loop found, NULL included.
StopFinishAlways(c, profile) ==
  [c EXCEPT !.finished_profiles_ = Append(@, profile)]

\* A version of the loop that leaves the profile it found in the list.
StopScanNoRemove(c, title) ==
  LET i == StopIndex(c, title)
  IN  IF i = 0 THEN [coll |-> c, profile |-> NULL]
      ELSE [coll |-> c, profile |-> c.current_profiles_[i]]

\* The loop of StopProfiling, run with the semaphore held: returns the
\* collection after it and the profile taken out, or NULL.
StopScan(c, title) ==
  LET i == StopIndex(c, title)
  IN  IF i = 0 THEN [coll |-> c, profile |-> NULL]
      ELSE [coll |-> [c EXCEPT !.current_profiles_ = Remove(@, i)],
            profile |-> c.current_profiles_[i]]

\* The end of StopProfiling, run after the semaphore is released.
StopFinish(c, profile) ==
  IF profile = NULL THEN c
  ELSE [c EXCEPT !.heap[profile] = CalculateTotalTicksAndSamplingRate(@),
                 !.finished_profiles_ = Append(@, profile)]

\* Returns the collection after the call and the profile returned.
StopProfiling(c, title) ==
  LET r == StopScan(c, title)
  IN  [coll |-> StopFinish(r.coll, r.profile), profile |-> r.profile]

\* Semaphore::Wait returns when the count is positive, and lowers it.
\* A Signal that leaves the count as it is.
SignalNone(c) == c

CanWaitAlways(c) == TRUE

CanWait(c) == c.current_profiles_semaphore_ > 0

Wait(c) == [c EXCEPT !.current_profiles_semaphore_ = @ - 1]

\* A Signal that raises the count by two.
SignalTwice(c) == [c EXCEPT !.current_profiles_semaphore_ = @ + 2]

\* Semaphore::Signal
Signal(c) == [c EXCEPT !.current_profiles_semaphore_ = @ + 1]

\* A version that returns when the profile is not found.
RemoveProfileSilent(c, profile) ==
  LET found == {i \in 1..Len(c.finished_profiles_) :
                  c.finished_profiles_[i] = profile}
  IN  IF found = {} THEN c
      ELSE [c EXCEPT !.finished_profiles_ =
                       Remove(@, CHOOSE i \in found : \A j \in found : i <= j)]

\* Reaching the end of the loop is UNREACHABLE().
RemoveProfile(c, profile) ==
  LET found == {i \in 1..Len(c.finished_profiles_) :
                  c.finished_profiles_[i] = profile}
  IN  IF found = {} THEN [c EXCEPT !.unreachable = TRUE]
      ELSE [c EXCEPT !.finished_profiles_ =
                       Remove(@, CHOOSE i \in found : \A j \in found : i <= j)]

\* A version that loses what AddPath did to the profile.
ServedNone(c, p, r) == [coll |-> c, deopt |-> r.deopt]

\* The collection and the deopt reasons after AddPath on the profile at
\* address p returned r.
Served(c, p, r) ==
  [coll |-> [c EXCEPT !.heap[p] = r.profile], deopt |-> r.deopt]

RECURSIVE FanOut(_, _, _, _, _, _)
\* for (i = 0; i < current_profiles_.length(); ++i)
\*   current_profiles_[i]->AddPath(...), from place i on; s holds the
\* collection and the deopt reasons.
FanOut(s, i, timestamp, path, src_line, update_stats) ==
  IF i > Len(s.coll.current_profiles_) THEN s
  ELSE FanOut(Served(s.coll, s.coll.current_profiles_[i],
                     AddPath(s.coll.heap[s.coll.current_profiles_[i]], s.deopt,
                             timestamp, path, src_line, update_stats)),
              i + 1, timestamp, path, src_line, update_stats)

RECURSIVE FanOutBackward(_, _, _, _, _, _)
\* The loop run from the last place down to place 1.
FanOutBackward(s, i, timestamp, path, src_line, update_stats) ==
  IF i = 0 THEN s
  ELSE FanOutBackward(Served(s.coll, s.coll.current_profiles_[i],
                             AddPath(s.coll.heap[s.coll.current_profiles_[i]],
                                     s.deopt, timestamp, path, src_line,
                                     update_stats)),
                      i - 1, timestamp, path, src_line, update_stats)

\* A version that visits the sessions last to first.
AddPathToCurrentProfilesBackward(c, deopt, timestamp, path, src_line, update_stats) ==
  FanOutBackward([coll |-> c, deopt |-> deopt], Len(c.current_profiles_),
                 timestamp, path, src_line, update_stats)

\* Returns the collection and the deopt reasons after the call.
AddPathToCurrentProfiles(c, deopt, timestamp, path, src_line, update_stats) ==
  FanOut([coll |-> c, deopt |-> deopt], 1, timestamp, path, src_line,
         update_stats)

\* ------------------------------------------------------ ProfileGenerator
\* JITLineInfoTable::GetSourceLineNumber: pc_offset_map_ is a function from
\* offsets to lines; lower_bound is the first key not less than pc_offset.
GetSourceLineNumber(pc_offset_map_, pc_offset) ==
  LET from == {k \in DOMAIN pc_offset_map_ : k >= pc_offset}
  IN  IF from = {}
      THEN IF DOMAIN pc_offset_map_ = {} THEN kNoLineNumberInfo
           ELSE pc_offset_map_[CHOOSE k \in DOMAIN pc_offset_map_ :
                                 \A j \in DOMAIN pc_offset_map_ : j <= k]
      ELSE pc_offset_map_[CHOOSE k \in from : \A j \in from : k <= j]

\* A pointer to a table or a vector is <<>> when null and <<object>> when
\* not.
\* CodeEntry::GetSourceLine
GetSourceLine(entry, pc_offset) ==
  IF code_entries[entry].line_info_ # <<>>
     /\ DOMAIN code_entries[entry].line_info_[1] # {}
  THEN GetSourceLineNumber(code_entries[entry].line_info_[1], pc_offset)
  ELSE kNoLineNumberInfo

\* CodeEntry::GetInlineStack: inline_locations_ is a function from offsets
\* to vectors of entries.
GetInlineStack(entry, pc_offset) ==
  IF pc_offset \in DOMAIN code_entries[entry].inline_locations_
  THEN <<code_entries[entry].inline_locations_[pc_offset]>>
  ELSE <<>>

\* A vector from rbegin() to rend().
Reversed(v) == [i \in 1..Len(v) |-> v[Len(v) + 1 - i]]

\* ProfileGenerator::EntryForVMState
EntryForVMState(tag) ==
  IF tag = "GC" THEN gc_entry_
  ELSE IF tag \in {"JS", "COMPILER", "OTHER", "EXTERNAL"} THEN program_entry_
  ELSE IF tag = "IDLE" THEN idle_entry_
  ELSE NULL

\* A version that never looks at the line table.
SourceLineDeclared(entry, pc_offset) == code_entries[entry].line_number

\* src_line = entry->GetSourceLine(pc_offset), or entry->line_number() when
\* that is kNoLineNumberInfo.
SourceLineAt(entry, pc_offset) ==
  IF GetSourceLine(entry, pc_offset) = kNoLineNumberInfo
  THEN code_entries[entry].line_number
  ELSE GetSourceLine(entry, pc_offset)

\* int pc_offset = static_cast<int>(addr - entry->instruction_start()), for
\* sample.pc and for *stack_pos.
PcOffset(addr, entry) == addr - code_entries[entry].instruction_start

\* The locals of RecordTickSample before the sample is looked at.
NoFrames ==
  [entries |-> <<>>, src_line |-> kNoLineNumberInfo,
   src_line_not_found |-> TRUE]

\* A version that adds the unresolved entry whatever has_external_callback is.
IsTrampolineAlways(sample, pc_entry) ==
  code_entries[pc_entry].builtin_id
    \in {"kFunctionPrototypeApply", "kFunctionPrototypeCall"}

\* The pc entry is one of the two builtins and the unresolved entry is added.
IsTrampoline(sample, pc_entry) ==
  /\ code_entries[pc_entry].builtin_id
       \in {"kFunctionPrototypeApply", "kFunctionPrototypeCall"}
  /\ ~sample.has_external_callback

\* if (pc_entry) { ... }: the line of the pc entry, the entry itself and,
\* after an apply or call builtin, unresolved_entry_.
PcFrame(sample, pc_entry) ==
  IF pc_entry = NULL THEN NoFrames
  ELSE [entries |-> IF IsTrampoline(sample, pc_entry)
                    THEN <<pc_entry, unresolved_entry_>>
                    ELSE <<pc_entry>>,
        src_line |->
          SourceLineAt(pc_entry, PcOffset(sample.pc, pc_entry)),
        src_line_not_found |-> FALSE]

\* A version without the retry at the top of the stack.
PcEntryNoRetry(m, sample) == FindEntry(m, sample.pc)

\* CodeEntry* pc_entry = code_map_.FindEntry(sample.pc), and FindEntry of
\* sample.tos when that is NULL and there is no external callback.
PcEntry(m, sample) ==
  IF FindEntry(m, sample.pc) = NULL /\ ~sample.has_external_callback
  THEN FindEntry(m, sample.tos)
  ELSE FindEntry(m, sample.pc)

\* The test that decides whether pc is used.
InExternalCallback(sample) ==
  sample.has_external_callback /\ sample.state = "EXTERNAL"

\* The first if/else under sample.pc != nullptr.
InnermostFrames(m, sample) ==
  IF InExternalCallback(sample)
  THEN [NoFrames EXCEPT
          !.entries = <<FindEntry(m, sample.external_callback_entry)>>]
  ELSE PcFrame(sample, PcEntry(m, sample))

\* The body of the loop over the stack, for the address stack_pos that
\* FindEntry resolved to entry.
StackFrame(r, stack_pos, entry) ==
  IF entry = NULL THEN [r EXCEPT !.entries = Append(@, NULL)]
  ELSE LET pc_offset == PcOffset(stack_pos, entry)
           inline_stack == GetInlineStack(entry, pc_offset)
       IN  [entries |-> IF inline_stack # <<>>
                        THEN Append(r.entries \o Reversed(inline_stack[1]),
                                    entry)
                        ELSE Append(r.entries, entry),
            src_line |-> IF r.src_line_not_found
                         THEN SourceLineAt(entry, pc_offset)
                         ELSE r.src_line,
            src_line_not_found |-> FALSE]

RECURSIVE StackFrames(_, _, _, _)
\* for (stack_pos = sample.stack; stack_pos != stack_end; ++stack_pos), from
\* the i-th address on.
StackFrames(m, r, stack, i) ==
  IF i > Len(stack) THEN r
  ELSE StackFrames(m, StackFrame(r, stack[i], FindEntry(m, stack[i])), stack,
                   i + 1)

\* if (sample.pc != nullptr) { ... }
Frames(m, sample) ==
  IF sample.pc # NULL
  THEN StackFrames(m, InnermostFrames(m, sample), sample.stack, 1)
  ELSE NoFrames

\* A version that adds the VM state entry whatever the entries are.
WithVMStateAlways(FLAG_prof_browser_mode, sample, r) ==
  IF FLAG_prof_browser_mode
  THEN [r EXCEPT !.entries = Append(@, EntryForVMState(sample.state))]
  ELSE r

\* if (FLAG_prof_browser_mode) { ... }
WithVMState(FLAG_prof_browser_mode, sample, r) ==
  IF FLAG_prof_browser_mode /\ \A i \in 1..Len(r.entries) : r.entries[i] = NULL
  THEN [r EXCEPT !.entries = Append(@, EntryForVMState(sample.state))]
  ELSE r

\* The arguments RecordTickSample passes to AddPathToCurrentProfiles.
RecordTickSample(m, FLAG_prof_browser_mode, sample) ==
  WithVMState(FLAG_prof_browser_mode, sample, Frames(m, sample))

\* ---------------------------------------------------------------- actions
\* The operations of a run are applied to code_map_; the last one of a run is
\* recorded in last_op with the index it was called on in pre_map, and the run
\* ends there.
NoOp == [op |-> "none", addr |-> 0, to |-> 0, entry |-> NULL, size |-> 0,
         ret |-> NULL]

EmptyMap == [k \in {} |-> CodeEntryInfo(NULL, 0)]

NoCall == [op |-> "none", this |-> NULL, entry |-> NULL, ret |-> FALSE,
           path |-> <<>>, src_line |-> kNoLineNumberInfo,
           update_stats |-> FALSE, node |-> NULL, title |-> 0,
           record_samples |-> FALSE, timestamp |-> 0, profile |-> NULL]

\* No entry has deopt information before one is registered.
NoDeopt == [i \in {} |-> kNoDeoptReason]

\* The tree of a run that does not sample.
\* A thread that is in no call.
Idle ==
  [pc |-> "idle", op |-> "none", title |-> 0, record_samples |-> FALSE,
   profile |-> NULL, ret |-> FALSE, sample |-> NULL, timestamp |-> 0, i |-> 0,
   seen |-> NULL, seen_deopt |-> NULL]

NoThreads == [vm |-> Idle, sampler |-> Idle]

InitNoColl ==
  /\ thread = NoThreads
  /\ traversal = NoTraversal
  /\ coll = CpuProfilesCollection
  /\ pre_coll = CpuProfilesCollection
  /\ deopts = 0
  /\ calls = 0

InitNoTree ==
  /\ InitNoColl
  /\ tree = ProfileTree
  /\ deopt_reason = NoDeopt
  /\ pre_tree = ProfileTree
  /\ pre_deopt = NoDeopt
  /\ samples = 0

NoEntries == [i \in {} |-> NULL]

InitCodeMap ==
  /\ code_map = EmptyMap
  /\ pre_map = EmptyMap
  /\ last_op = NoOp
  /\ code_entries = NoEntries
  /\ last_call = NoCall
  /\ InitNoTree

Record(rec, op) ==
  IF rec THEN pre_map' = code_map /\ last_op' = op
  ELSE UNCHANGED <<pre_map, last_op>>

AddCodeStep ==
  \E addr \in Addr, entry \in Entries, size \in Sizes, rec \in BOOLEAN :
    /\ last_op = NoOp
    /\ code_map' = AddCode(code_map, addr, entry, size)
    /\ Record(rec, [NoOp EXCEPT !.op = "AddCode", !.addr = addr,
                                !.entry = entry, !.size = size])
    /\ UNCHANGED <<entryVars, treeVars, collVars, traversal, thread>>

MoveCodeStep ==
  \E from \in Addr, to \in Addr, rec \in BOOLEAN :
    /\ last_op = NoOp
    /\ code_map' = MoveCode(code_map, from, to)
    /\ Record(rec, [NoOp EXCEPT !.op = "MoveCode", !.addr = from, !.to = to])
    /\ UNCHANGED <<entryVars, treeVars, collVars, traversal, thread>>

\* Lookups reach past the last start address, up to the end of the longest
\* range. CodeMap::FindEntry assigns nothing.
FindEntryStep ==
  \E addr \in 0..(MaxAddr + MaxSize) :
    /\ last_op = NoOp
    /\ UNCHANGED code_map
    /\ Record(TRUE, [NoOp EXCEPT !.op = "FindEntry", !.addr = addr,
                                 !.ret = FindEntry(code_map, addr)])
    /\ UNCHANGED <<entryVars, treeVars, collVars, traversal, thread>>

NextCodeMap == AddCodeStep \/ MoveCodeStep \/ FindEntryStep

SpecCodeMap == InitCodeMap /\ [][NextCodeMap]_vars

\* ------------------------------------------------- CodeMap: the properties
\* The addresses of the range [start, start + size).
Range(start, size) == start..(start + size - 1)

\* Every address a lookup can resolve.
AllAddr == 0..(MaxAddr + MaxSize)

\* C1: after AddCode(start, d, size) every earlier entry whose range
\* intersects [start, start+size) is gone, the entry (start, size, d) is
\* present, and FindEntry resolves every address of the new range to d.
C1_InsertNewestWins ==
  last_op.op = "AddCode" =>
    LET start == last_op.addr
        size == last_op.size
        d == last_op.entry
    IN  /\ \A k \in DOMAIN pre_map :
             Range(k, pre_map[k].size) \cap Range(start, size) # {}
               => (k \notin DOMAIN code_map \/ k = start)
        /\ start \in DOMAIN code_map
        /\ code_map[start] = CodeEntryInfo(d, size)
        /\ \A a \in Range(start, size) : FindEntry(code_map, a) = d

\* C2: no two entries of the index have intersecting address ranges.
C2_NoOverlap ==
  \A k1 \in DOMAIN code_map, k2 \in DOMAIN code_map :
    k1 # k2 =>
      Range(k1, code_map[k1].size) \cap Range(k2, code_map[k2].size) = {}

\* An insertion that removed an entry it partially overlapped and left
\* another entry in the index.
C2_Witness ==
  /\ last_op.op = "AddCode"
  /\ last_op.size >= 1
  /\ Cardinality(DOMAIN code_map) >= 2
  /\ \E k \in DOMAIN pre_map :
       /\ k < last_op.addr
       /\ last_op.addr < k + pre_map[k].size
       /\ k \notin DOMAIN code_map

\* C3: an entry that AddCode removes is removed whole: the addresses it
\* covered outside the new range no longer resolve, and entries that do not
\* intersect the new range resolve as before.
C3_RangeOverwrite ==
  last_op.op = "AddCode" =>
    LET start == last_op.addr
        size == last_op.size
    IN  /\ \A k \in DOMAIN pre_map :
             Range(k, pre_map[k].size) \cap Range(start, size) # {}
               => \A a \in Range(k, pre_map[k].size) \ Range(start, size) :
                    FindEntry(code_map, a) = NULL
        /\ \A k \in DOMAIN pre_map :
             Range(k, pre_map[k].size) \cap Range(start, size) = {}
               => \A a \in Range(k, pre_map[k].size) :
                    FindEntry(code_map, a) = FindEntry(pre_map, a)

\* The greatest start address <= addr.
FloorKey(m, addr) ==
  CHOOSE k \in DOMAIN m : k <= addr /\ \A j \in DOMAIN m : j <= addr => j <= k

\* What the lookup of addr is to return.
Resolved(m, addr) ==
  IF \E k \in DOMAIN m : k <= addr
  THEN LET k == FloorKey(m, addr)
       IN  IF addr < k + m[k].size THEN m[k].entry ELSE NULL
  ELSE NULL

\* C4: FindEntry(address) is the descriptor of the entry with the greatest
\* start <= address iff address < start + size of that entry, else none; and
\* a lookup leaves the index as it was.
C4_FindEntry ==
  /\ \A a \in AllAddr : FindEntry(code_map, a) = Resolved(code_map, a)
  /\ last_op.op = "FindEntry" =>
       /\ code_map = pre_map
       /\ last_op.ret = Resolved(pre_map, last_op.addr)

\* A lookup of the last address of a range that resolved, with another entry
\* in the index.
C4_Witness ==
  /\ last_op.op = "FindEntry"
  /\ last_op.ret # NULL
  /\ Cardinality(DOMAIN code_map) >= 2
  /\ \E k \in DOMAIN code_map :
       code_map[k].size >= 2 /\ last_op.addr = k + code_map[k].size - 1

\* C5: MoveCode(from, to) leaves the index unchanged when from = to and when
\* no entry starts at `from`.
C5_MoveNoOp ==
  (/\ last_op.op = "MoveCode"
   /\ (last_op.addr = last_op.to \/ last_op.addr \notin DOMAIN pre_map))
    => code_map = pre_map

\* A move from an address strictly inside an entry's range to a free address.
C5_Witness ==
  /\ last_op.op = "MoveCode"
  /\ last_op.addr # last_op.to
  /\ last_op.addr \notin DOMAIN pre_map
  /\ FindEntry(pre_map, last_op.addr) # NULL
  /\ last_op.to \notin DOMAIN pre_map

\* C6: after MoveCode(from, to), from # to, of an existing entry
\* (from, size, d): an entry (to, size, d) exists, no entry starts at `from`,
\* and FindEntry resolves every address of [to, to+size) to d.
C6_MoveRekeys ==
  (/\ last_op.op = "MoveCode"
   /\ last_op.addr # last_op.to
   /\ last_op.addr \in DOMAIN pre_map)
    => LET from == last_op.addr
           to == last_op.to
           info == pre_map[from]
       IN  /\ to \in DOMAIN code_map
           /\ code_map[to] = info
           /\ from \notin DOMAIN code_map
           /\ \A a \in Range(to, info.size) :
                FindEntry(code_map, a) = info.entry

\* ------------------------------------------------ CodeEntry: the relation
\* The descriptors the relation is applied to.
CodeEntryDomain ==
  {CodeEntry(FUNCTION_TAG, kEmptyNamePrefix, name, resource_name, line_number,
             script_id, position) :
     name \in Names, resource_name \in Names, line_number \in 0..MaxLine,
     script_id \in 0..MaxScriptId, position \in 0..MaxPosition}

Instances == 1..NumInstances

InitSameFunction ==
  /\ code_entries \in [Instances -> CodeEntryDomain]
  /\ last_call = NoCall
  /\ code_map = EmptyMap
  /\ pre_map = EmptyMap
  /\ last_op = NoOp
  /\ InitNoTree

IsSameFunctionAsStep ==
  \E this \in DOMAIN code_entries, entry \in DOMAIN code_entries :
    /\ last_call = NoCall
    /\ last_call' = [NoCall EXCEPT !.op = "IsSameFunctionAs", !.this = this,
                                   !.entry = entry,
                                   !.ret = IsSameFunctionAs(this, entry)]
    /\ UNCHANGED <<code_entries, mapVars, treeVars, collVars, traversal, thread>>

NextSameFunction == IsSameFunctionAsStep

SpecSameFunction == InitSameFunction /\ [][NextSameFunction]_vars

\* C7: IsSameFunctionAs is an equivalence on descriptors: reflexive,
\* symmetric and transitive, also between a descriptor with a script id and
\* one without; it holds iff script id and start position match when a script
\* id is present, otherwise iff name prefix, name, resource name and line
\* number all match.
C7_SameFunctionEquivalence ==
  last_call.op = "IsSameFunctionAs" =>
    LET a == last_call.this
        b == last_call.entry
        A == code_entries[a]
        B == code_entries[b]
    IN  /\ IsSameFunctionAs(a, a)
        /\ last_call.ret = IsSameFunctionAs(b, a)
        /\ \A c \in DOMAIN code_entries :
             (last_call.ret /\ IsSameFunctionAs(b, c)) => IsSameFunctionAs(a, c)
        /\ last_call.ret =
             IF A.script_id # kNoScriptId \/ B.script_id # kNoScriptId
             THEN A.script_id = B.script_id /\ A.position = B.position
             ELSE /\ A.name_prefix = B.name_prefix
                  /\ A.name = B.name
                  /\ A.resource_name = B.resource_name
                  /\ A.line_number = B.line_number

\* ------------------------------------------------- ProfileTree: the calls
\* The entries a path can hold, and the paths handed to AddPathFromEnd.
PathEntries == {1, 2}

Paths ==
  UNION {[1..n -> PathEntries \cup {NULL}] : n \in 0..MaxPath}

Script(tag, script_id, position) ==
  CodeEntry(tag, kEmptyNamePrefix, 1, 1, 1, script_id, position)

NoScript(name, line_number) ==
  CodeEntry(FUNCTION_TAG, kEmptyNamePrefix, name, 1, line_number, kNoScriptId,
            0)

\* root_entry_(CodeEventListener::FUNCTION_TAG, "(root)")
RootEntry ==
  CodeEntry(FUNCTION_TAG, kEmptyNamePrefix, kRootEntryName,
            kEmptyResourceName, kNoLineNumberInfo, kNoScriptId, 0)

Registry(e1, e2) ==
  [i \in PathEntries \cup {root_entry_} |->
     IF i = 1 THEN e1 ELSE IF i = 2 THEN e2 ELSE RootEntry]

\* The code entries of a run, and the entries deoptimized before sampling.
TreeFixtures ==
  { \* one function registered as a function and as a builtin
    [entries |-> Registry(Script(FUNCTION_TAG, 1, 0), Script(BUILTIN_TAG, 1, 0)),
     deopt |-> {}],
    \* two functions of one script
    [entries |-> Registry(Script(FUNCTION_TAG, 1, 0), Script(FUNCTION_TAG, 1, 1)),
     deopt |-> {2}],
    \* two instances of the descriptor of one script function
    [entries |-> Registry(Script(FUNCTION_TAG, 1, 0), Script(FUNCTION_TAG, 1, 0)),
     deopt |-> {1}],
    \* two instances of the descriptor of a function with no script
    [entries |-> Registry(NoScript(1, 1), NoScript(1, 1)),
     deopt |-> {}] }

InitTree ==
  /\ \E f \in TreeFixtures :
       /\ code_entries = f.entries
       /\ deopt_reason = [i \in DOMAIN f.entries |->
                            IF i \in f.deopt THEN 1 ELSE kNoDeoptReason]
  /\ tree = ProfileTree
  /\ pre_tree = ProfileTree
  /\ pre_deopt = deopt_reason
  /\ samples = 0
  /\ last_call = NoCall
  /\ code_map = EmptyMap
  /\ pre_map = EmptyMap
  /\ last_op = NoOp
  /\ InitNoColl

RecordCall(rec, call) ==
  IF rec THEN /\ pre_tree' = tree
              /\ pre_deopt' = deopt_reason
              /\ last_call' = call
  ELSE UNCHANGED <<pre_tree, pre_deopt, last_call>>

\* The last sample of a run is recorded.
AddPathFromEndStep ==
  \E path \in Paths, src_line \in {kNoLineNumberInfo, 1},
     update_stats \in BOOLEAN, rec \in BOOLEAN :
    /\ last_call = NoCall
    /\ samples < MaxSamples
    /\ (samples + 1 = MaxSamples) => rec
    /\ LET r == AddPathFromEnd(tree, deopt_reason, path, src_line,
                               update_stats)
       IN  /\ tree' = r.tree
           /\ deopt_reason' = r.deopt
           /\ RecordCall(rec, [NoCall EXCEPT !.op = "AddPathFromEnd",
                                 !.path = path, !.src_line = src_line,
                                 !.update_stats = update_stats,
                                 !.node = r.node])
    /\ samples' = samples + 1
    /\ UNCHANGED <<mapVars, code_entries, collVars, traversal, thread>>

FindOrAddChildStep ==
  \E this \in DOMAIN tree.nodes, entry \in PathEntries :
    /\ last_call = NoCall
    /\ LET r == FindOrAddChild(tree, this, entry)
       IN  /\ tree' = r.tree
           /\ RecordCall(TRUE, [NoCall EXCEPT !.op = "FindOrAddChild",
                                  !.this = this, !.entry = entry,
                                  !.node = r.node])
    /\ UNCHANGED <<mapVars, code_entries, deopt_reason, samples, collVars, traversal, thread>>

NextTree == AddPathFromEndStep \/ FindOrAddChildStep

SpecTree == InitTree /\ [][NextTree]_vars

\* ---------------------------------------------- ProfileTree: the properties
\* Two descriptors that both have a script id and agree on script id and
\* start position, or both have none and agree on name prefix, name,
\* resource name and line number.
SameFunction(e1, e2) ==
  LET A == code_entries[e1]
      B == code_entries[e2]
  IN  IF A.script_id # kNoScriptId /\ B.script_id # kNoScriptId
      THEN A.script_id = B.script_id /\ A.position = B.position
      ELSE /\ A.script_id = kNoScriptId
           /\ B.script_id = kNoScriptId
           /\ A.name_prefix = B.name_prefix
           /\ A.name = B.name
           /\ A.resource_name = B.resource_name
           /\ A.line_number = B.line_number

\* The paths that hold, entry by entry, the same functions as path.
SameFunctionPaths(path) ==
  {q \in Paths :
     /\ Len(q) = Len(path)
     /\ \A i \in 1..Len(path) :
          IF path[i] = NULL THEN q[i] = NULL
          ELSE q[i] # NULL /\ SameFunction(path[i], q[i])}

\* C8: two instances of the same function, whatever their tags, hash alike
\* and are one child: FindOrAddChild on one parent returns the same node for
\* both, and a path built from either instance ends at the same node and
\* creates no node once the other has been fed.
C8_EquivalenceMerge ==
  /\ last_call.op = "FindOrAddChild" =>
       \A e \in PathEntries :
         SameFunction(last_call.entry, e) =>
           /\ GetHash(e) = GetHash(last_call.entry)
           /\ FindOrAddChild(tree, last_call.this, e).node = last_call.node
  /\ last_call.op = "AddPathFromEnd" =>
       \A q \in SameFunctionPaths(last_call.path) :
         LET r == AddPathFromEnd(tree, deopt_reason, q, last_call.src_line,
                                 last_call.update_stats)
         IN  /\ r.node = last_call.node
             /\ Len(r.tree.nodes) = Len(tree.nodes)

\* The self-tick count a node had before the recorded call.
PreSelfTicks(n) ==
  IF n \in DOMAIN pre_tree.nodes THEN pre_tree.nodes[n].self_ticks ELSE 0

RECURSIVE HasChain(_, _, _, _)
\* The entries path[i], ..., path[1] lead from node, child by child, to
\* target.
HasChain(node, path, i, target) ==
  IF i = 0 THEN node = target
  ELSE \E c \in tree.nodes[node].children :
         /\ c \in DOMAIN tree.nodes
         /\ SameFunction(path[i], tree.nodes[c].entry)
         /\ HasChain(c, path, i - 1, target)

RECURSIVE FedAgain(_, _, _)
\* Each of n more feeds of the recorded path returns the recorded node,
\* creates no node and raises the self-tick count of that node by one.
FedAgain(t, d, n) ==
  IF n = 0 THEN TRUE
  ELSE LET r == AddPathFromEnd(t, d, last_call.path, last_call.src_line,
                               TRUE)
       IN  /\ r.node = last_call.node
           /\ Len(r.tree.nodes) = Len(t.nodes)
           /\ r.tree.nodes[r.node].self_ticks =
                t.nodes[last_call.node].self_ticks + 1
           /\ FedAgain(r.tree, r.deopt, n - 1)

ResolvedPath(path) == \A i \in 1..Len(path) : path[i] # NULL

\* C9: AddPathFromEnd with update_stats on a path of resolved entries raises
\* the self-tick count of the returned node by one and of no other node, the
\* chain from the root along the path to the returned node exists, and
\* feeding the path N more times raises the count of that node by N and
\* creates no node.
C9_PathAggregation ==
  (/\ last_call.op = "AddPathFromEnd"
   /\ last_call.update_stats
   /\ ResolvedPath(last_call.path)) =>
    /\ \A n \in DOMAIN tree.nodes :
         tree.nodes[n].self_ticks =
           PreSelfTicks(n) + (IF n = last_call.node THEN 1 ELSE 0)
    /\ HasChain(root_, last_call.path, Len(last_call.path), last_call.node)
    /\ FedAgain(tree, deopt_reason, MaxSamples)

\* A path of two resolved entries fed a second time: the leaf was there and
\* has two ticks.
C9_Witness ==
  /\ last_call.op = "AddPathFromEnd"
  /\ last_call.update_stats
  /\ Len(last_call.path) = 2
  /\ ResolvedPath(last_call.path)
  /\ Len(tree.nodes) = Len(pre_tree.nodes)
  /\ tree.nodes[last_call.node].self_ticks = 2

\* The path without its NULL entries.
WithoutNull(path) == SelectSeq(path, LAMBDA e : e # NULL)

\* C10: on a path with no resolved entry AddPathFromEnd creates no node and
\* returns the root, whose self-tick count and, for a valid line, line
\* histogram go up by one if update_stats is set; on any path the result is
\* that of the path with its NULL entries removed.
C10_UnresolvedSkipped ==
  last_call.op = "AddPathFromEnd" =>
    LET path == last_call.path
        line == last_call.src_line
        root == pre_tree.nodes[root_]
    IN  /\ WithoutNull(path) = <<>> =>
             /\ last_call.node = root_
             /\ deopt_reason = pre_deopt
             /\ tree =
                  IF ~last_call.update_stats THEN pre_tree
                  ELSE [pre_tree EXCEPT
                          !.nodes[root_].self_ticks = @ + 1,
                          !.nodes[root_].line_ticks =
                            IF line = kNoLineNumberInfo THEN @
                            ELSE IF line \in DOMAIN @
                                 THEN [@ EXCEPT ![line] = @ + 1]
                                 ELSE [l \in DOMAIN @ \cup {line} |->
                                         IF l = line THEN 1 ELSE root.line_ticks[l]]]
        /\ LET r == AddPathFromEnd(pre_tree, pre_deopt, WithoutNull(path), line,
                                   last_call.update_stats)
           IN  /\ tree = r.tree
               /\ deopt_reason = r.deopt
               /\ last_call.node = r.node

\* A path whose outermost entry is unresolved and whose innermost is not,
\* fed with update_stats and a valid line: the tick is on a node below the
\* root.
C10_Witness ==
  /\ last_call.op = "AddPathFromEnd"
  /\ last_call.update_stats
  /\ last_call.src_line # kNoLineNumberInfo
  /\ Len(last_call.path) = 2
  /\ last_call.path[2] = NULL
  /\ last_call.path[1] # NULL
  /\ last_call.node # root_
  /\ tree.nodes[last_call.node].self_ticks = 1

\* -------------------------------------- CpuProfilesCollection: the calls
\* The samples delivered to the collection: with and without a tick, with and
\* without a timestamp, with and without an unresolved frame.
Samples ==
  {[path |-> <<1>>, src_line |-> 1, update_stats |-> TRUE, timed |-> TRUE],
   [path |-> <<NULL, 2>>, src_line |-> 1, update_stats |-> TRUE, timed |-> TRUE],
   [path |-> <<1>>, src_line |-> kNoLineNumberInfo, update_stats |-> TRUE,
    timed |-> FALSE],
   [path |-> <<2, 1>>, src_line |-> 1, update_stats |-> FALSE, timed |-> TRUE]}

InitProfiles ==
  /\ code_entries =
       Registry(Script(FUNCTION_TAG, 1, 0), Script(FUNCTION_TAG, 1, 1))
  /\ deopt_reason = [i \in PathEntries \cup {root_entry_} |-> kNoDeoptReason]
  /\ pre_deopt = deopt_reason
  /\ coll = CpuProfilesCollection
  /\ pre_coll = CpuProfilesCollection
  /\ traversal = NoTraversal
  /\ thread = NoThreads
  /\ deopts = 0
  /\ calls = 0
  /\ samples = 0
  /\ last_call = NoCall
  /\ tree = ProfileTree
  /\ pre_tree = ProfileTree
  /\ code_map = EmptyMap
  /\ pre_map = EmptyMap
  /\ last_op = NoOp

\* The last call of a run on the collection is recorded.
RecordColl(rec, call) ==
  IF rec THEN /\ pre_coll' = coll
              /\ pre_deopt' = deopt_reason
              /\ last_call' = call
  ELSE UNCHANGED <<pre_coll, pre_deopt, last_call>>

\* No call is made once a call was recorded or UNREACHABLE() was reached.
Running ==
  /\ last_call = NoCall
  /\ ~coll.unreachable
  /\ calls < MaxCalls
  /\ calls' = calls + 1

StartProfilingStep ==
  \E title \in Titles, record_samples \in BOOLEAN, rec \in BOOLEAN :
    /\ Running
    /\ LET r == StartProfiling(coll, title, record_samples)
       IN  /\ coll' = r.coll
           /\ RecordColl(rec, [NoCall EXCEPT !.op = "StartProfiling",
                                 !.title = title,
                                 !.record_samples = record_samples,
                                 !.ret = r.ret])
    /\ UNCHANGED <<mapVars, code_entries, tree, pre_tree, deopt_reason,
                   samples, deopts, traversal, thread>>

StopProfilingStep ==
  \E title \in Titles, rec \in BOOLEAN :
    /\ Running
    /\ LET r == StopProfiling(coll, title)
       IN  /\ coll' = r.coll
           /\ RecordColl(rec, [NoCall EXCEPT !.op = "StopProfiling",
                                 !.title = title, !.profile = r.profile])
    /\ UNCHANGED <<mapVars, code_entries, tree, pre_tree, deopt_reason,
                   samples, deopts, traversal, thread>>

\* The profile is one that was created, or an address where none was.
RemoveProfileStep ==
  \E profile \in 1..(Len(coll.heap) + 1), rec \in BOOLEAN :
    /\ Running
    /\ coll' = RemoveProfile(coll, profile)
    /\ RecordColl(rec, [NoCall EXCEPT !.op = "RemoveProfile",
                          !.profile = profile])
    /\ UNCHANGED <<mapVars, code_entries, tree, pre_tree, deopt_reason,
                   samples, deopts, traversal, thread>>

\* The collection and the deopt reasons become those a call returned.
Returned(r) ==
  /\ coll' = r.coll
  /\ deopt_reason' = r.deopt

\* The timestamp of a sample is null or the time of the sample.
AddPathToCurrentProfilesStep ==
  \E s \in Samples, rec \in BOOLEAN :
    /\ Running
    /\ LET timestamp == IF s.timed THEN samples + 1 ELSE 0
       IN  /\ Returned(AddPathToCurrentProfiles(coll, deopt_reason, timestamp,
                                                s.path, s.src_line,
                                                s.update_stats))
           /\ RecordColl(rec, [NoCall EXCEPT
                                 !.op = "AddPathToCurrentProfiles",
                                 !.timestamp = timestamp, !.path = s.path,
                                 !.src_line = s.src_line,
                                 !.update_stats = s.update_stats])
    /\ samples' = samples + 1
    /\ UNCHANGED <<mapVars, code_entries, tree, pre_tree, deopts, traversal, thread>>

\* CodeEntry::set_deopt_info: the reason of the n-th deoptimization is n.
SetDeoptInfoStep ==
  \E entry \in PathEntries :
    /\ Running
    /\ deopts' = deopts + 1
    /\ deopt_reason' = [deopt_reason EXCEPT ![entry] = deopts + 1]
    /\ UNCHANGED <<mapVars, entryVars, tree, pre_tree, pre_deopt, samples,
                   coll, pre_coll, traversal, thread>>

NextProfiles ==
  \/ StartProfilingStep
  \/ StopProfilingStep
  \/ RemoveProfileStep
  \/ AddPathToCurrentProfilesStep
  \/ SetDeoptInfoStep

SpecProfiles == InitProfiles /\ [][NextProfiles]_vars

\* --------------------------- CpuProfilesCollection: the calls, step by step
\* The VM thread starts, stops and removes profiles; the sampler thread adds
\* paths. A call is a sequence of steps: Wait, the lines under the semaphore,
\* Signal, and for StopProfiling the lines after it.
RECURSIVE Started(_)
\* The collection after StartProfiling of the titles 1..n, samples recorded.
Started(n) ==
  IF n = 0 THEN CpuProfilesCollection
  ELSE StartProfiling(Started(n - 1), n, TRUE).coll

\* The calls begin on a collection with no session or with every session
\* the limit allows, after `made` calls were counted.
InitLockAt(made) ==
  /\ code_entries =
       Registry(Script(FUNCTION_TAG, 1, 0), Script(FUNCTION_TAG, 1, 1))
  /\ deopt_reason = [i \in PathEntries \cup {root_entry_} |-> kNoDeoptReason]
  /\ pre_deopt = deopt_reason
  /\ \E n \in {0, kMaxSimultaneousProfiles} : coll = Started(n)
  /\ pre_coll = CpuProfilesCollection
  /\ traversal = NoTraversal
  /\ thread = NoThreads
  /\ deopts = 0
  /\ calls = made
  /\ samples = 0
  /\ last_call = NoCall
  /\ tree = ProfileTree
  /\ pre_tree = ProfileTree
  /\ code_map = EmptyMap
  /\ pre_map = EmptyMap
  /\ last_op = NoOp

InitLock == InitLockAt(0)

\* The runs that are checked for progress have two calls.
InitLockFair == InitLockAt(MaxLockCalls - 2)

\* What a step of the two threads leaves alone.
LockFrame ==
  UNCHANGED <<mapVars, entryVars, tree, pre_tree, pre_deopt, samples, pre_coll,
              deopts, traversal>>

VmCallStep ==
  \E op \in {"StartProfiling", "StopProfiling"}, title \in Titles,
     record_samples \in BOOLEAN :
    /\ thread.vm.pc = "idle"
    /\ ~coll.unreachable
    /\ calls < MaxLockCalls
    /\ calls' = calls + 1
    /\ op = "StopProfiling" => ~record_samples
    /\ thread' = [thread EXCEPT !.vm =
                    [Idle EXCEPT !.pc = "wait", !.op = op, !.title = title,
                                 !.record_samples = record_samples]]
    /\ UNCHANGED <<coll, deopt_reason>>
    /\ LockFrame

\* current_profiles_semaphore_.Wait() of StartProfiling and StopProfiling
VmWaitStep ==
  /\ thread.vm.pc = "wait"
  /\ CanWait(coll)
  /\ coll' = Wait(coll)
  /\ thread' = [thread EXCEPT !.vm.pc = "locked", !.vm.seen = coll,
                              !.vm.seen_deopt = deopt_reason]
  /\ UNCHANGED <<calls, deopt_reason>>
  /\ LockFrame

\* The lines of StartProfiling between Wait and Signal.
VmStartLockedStep ==
  /\ thread.vm.pc = "locked"
  /\ thread.vm.op = "StartProfiling"
  /\ LET r == StartProfiling(coll, thread.vm.title, thread.vm.record_samples)
     IN  /\ coll' = r.coll
         /\ thread' = [thread EXCEPT !.vm.pc = "signal", !.vm.ret = r.ret]
  /\ UNCHANGED <<calls, deopt_reason>>
  /\ LockFrame

\* The lines of StopProfiling between Wait and Signal.
VmStopLockedStep ==
  /\ thread.vm.pc = "locked"
  /\ thread.vm.op = "StopProfiling"
  /\ LET r == StopScan(coll, thread.vm.title)
     IN  /\ coll' = r.coll
         /\ thread' = [thread EXCEPT !.vm.pc = "signal",
                                     !.vm.profile = r.profile]
  /\ UNCHANGED <<calls, deopt_reason>>
  /\ LockFrame

\* current_profiles_semaphore_.Signal(); StartProfiling returns.
VmStartSignalStep ==
  /\ thread.vm.pc = "signal"
  /\ thread.vm.op = "StartProfiling"
  /\ coll' = Signal(coll)
  /\ thread' = [thread EXCEPT !.vm.pc = "idle"]
  /\ UNCHANGED <<calls, deopt_reason>>
  /\ LockFrame

\* current_profiles_semaphore_.Signal() of StopProfiling
VmStopSignalStep ==
  /\ thread.vm.pc = "signal"
  /\ thread.vm.op = "StopProfiling"
  /\ coll' = Signal(coll)
  /\ thread' = [thread EXCEPT !.vm.pc = "finish"]
  /\ UNCHANGED <<calls, deopt_reason>>
  /\ LockFrame

\* The lines of StopProfiling after Signal; StopProfiling returns.
VmStopFinishStep ==
  /\ thread.vm.pc = "finish"
  /\ coll' = StopFinish(coll, thread.vm.profile)
  /\ thread' = [thread EXCEPT !.vm.pc = "idle"]
  /\ UNCHANGED <<calls, deopt_reason>>
  /\ LockFrame

\* RemoveProfile takes no semaphore.
VmRemoveProfileStep ==
  \E profile \in DOMAIN coll.heap :
    /\ thread.vm.pc = "idle"
    /\ ~coll.unreachable
    /\ calls < MaxLockCalls
    /\ calls' = calls + 1
    /\ coll' = RemoveProfile(coll, profile)
    /\ thread' = [thread EXCEPT !.vm =
                    [Idle EXCEPT !.op = "RemoveProfile", !.profile = profile]]
    /\ UNCHANGED deopt_reason
    /\ LockFrame

SamplerCallStep ==
  \E s \in Samples :
    /\ thread.sampler.pc = "idle"
    /\ ~coll.unreachable
    /\ calls < MaxLockCalls
    /\ calls' = calls + 1
    /\ samples' = samples + 1
    /\ thread' = [thread EXCEPT !.sampler =
                    [Idle EXCEPT !.pc = "wait",
                                 !.op = "AddPathToCurrentProfiles",
                                 !.sample = s,
                                 !.timestamp = IF s.timed THEN samples + 1
                                               ELSE 0]]
    /\ UNCHANGED <<coll, deopt_reason>>
    /\ UNCHANGED <<mapVars, entryVars, tree, pre_tree, pre_deopt, pre_coll,
                   deopts, traversal>>

\* current_profiles_semaphore_.Wait() of AddPathToCurrentProfiles; i = 0.
SamplerWaitStep ==
  /\ thread.sampler.pc = "wait"
  /\ CanWait(coll)
  /\ coll' = Wait(coll)
  /\ thread' = [thread EXCEPT !.sampler.pc = "locked", !.sampler.i = 1,
                              !.sampler.seen = coll,
                              !.sampler.seen_deopt = deopt_reason]
  /\ UNCHANGED <<calls, deopt_reason>>
  /\ LockFrame

\* One turn of the loop: current_profiles_[i]->AddPath(...); ++i.
SamplerLoopStep ==
  /\ thread.sampler.pc = "locked"
  /\ thread.sampler.i <= Len(coll.current_profiles_)
  /\ LET p == coll.current_profiles_[thread.sampler.i]
         s == thread.sampler.sample
     IN  Returned(Served(coll, p,
                         AddPath(coll.heap[p], deopt_reason,
                                 thread.sampler.timestamp, s.path, s.src_line,
                                 s.update_stats)))
  /\ thread' = [thread EXCEPT !.sampler.i = @ + 1]
  /\ UNCHANGED calls
  /\ LockFrame

\* The loop is left.
SamplerLoopEndStep ==
  /\ thread.sampler.pc = "locked"
  /\ thread.sampler.i > Len(coll.current_profiles_)
  /\ thread' = [thread EXCEPT !.sampler.pc = "signal"]
  /\ UNCHANGED <<coll, calls, deopt_reason>>
  /\ LockFrame

\* current_profiles_semaphore_.Signal(); AddPathToCurrentProfiles returns.
SamplerSignalStep ==
  /\ thread.sampler.pc = "signal"
  /\ coll' = Signal(coll)
  /\ thread' = [thread EXCEPT !.sampler.pc = "idle"]
  /\ UNCHANGED <<calls, deopt_reason>>
  /\ LockFrame

NextLock ==
  \/ VmCallStep
  \/ VmWaitStep
  \/ VmStartLockedStep
  \/ VmStopLockedStep
  \/ VmStartSignalStep
  \/ VmStopSignalStep
  \/ VmStopFinishStep
  \/ VmRemoveProfileStep
  \/ SamplerCallStep
  \/ SamplerWaitStep
  \/ SamplerLoopStep
  \/ SamplerLoopEndStep
  \/ SamplerSignalStep

SpecLock == InitLock /\ [][NextLock]_vars

\* Both threads keep running: a thread that can take its next step takes it.
\* The steps of a call the VM thread has begun.
VmRun ==
  \/ VmWaitStep
  \/ VmStartLockedStep
  \/ VmStopLockedStep
  \/ VmStartSignalStep
  \/ VmStopSignalStep
  \/ VmStopFinishStep

\* The steps of a call the sampler thread has begun.
SamplerRun ==
  \/ SamplerWaitStep
  \/ SamplerLoopStep
  \/ SamplerLoopEndStep
  \/ SamplerSignalStep

\* The two threads under a scheduler that lets each of them run: a thread
\* whose next step stays possible takes it.
SpecLockFair ==
  /\ InitLockFair
  /\ [][NextLock]_vars
  /\ WF_vars(VmRun)
  /\ WF_vars(SamplerRun)

\* ------------------------------------------------ ProfileGenerator: calls
\* A CodeEntry with the fields RecordTickSample reads next to those of
\* CodeEntry(...).
GeneratorEntry(e, builtin_id, instruction_start, line_info_, inline_locations_) ==
  [tag |-> e.tag, name_prefix |-> e.name_prefix, name |-> e.name,
   resource_name |-> e.resource_name, line_number |-> e.line_number,
   script_id |-> e.script_id, position |-> e.position,
   builtin_id |-> builtin_id, instruction_start |-> instruction_start,
   line_info_ |-> line_info_, inline_locations_ |-> inline_locations_]

\* An empty inline_locations_.
NoInlineLocations == [pc_offset \in {} |-> <<>>]

\* CpuProfilesCollection::NewCodeEntry(tag, name), and root_entry_: no
\* builtin id, no line table, no inline stacks, not in the code map.
NewCodeEntry(tag, name) ==
  GeneratorEntry(CodeEntry(tag, kEmptyNamePrefix, name, kEmptyResourceName,
                           kNoLineNumberInfo, kNoScriptId, 0),
                 "builtin_count", NULL, <<>>, NoInlineLocations)

\* A function of script 1 declared on a line, with code at an address.
GeneratorFunction(name, line_number, position, instruction_start, line_info_, inline_locations_) ==
  GeneratorEntry(CodeEntry(FUNCTION_TAG, kEmptyNamePrefix, name, 1,
                           line_number, 1, position),
                 "builtin_count", instruction_start, line_info_,
                 inline_locations_)

\* The entries of a run. 1: a function with a line table (offset 0 is line
\* 2, offset 1 is line 3) and, at offset 1, an inline stack of the entries 9
\* and 10; 2: a function without a line table; 8, 12, 13: builtins, without
\* a declared line; 9, 10: the functions inlined into 1; 11: a callback with
\* an empty line table.
Builtin(name, builtin_id, instruction_start) ==
  GeneratorEntry(CodeEntry(BUILTIN_TAG, kEmptyNamePrefix, name,
                           kEmptyResourceName, kNoLineNumberInfo,
                           kNoScriptId, 0),
                 builtin_id, instruction_start, <<>>, NoInlineLocations)

GeneratorRegistry ==
  <<GeneratorFunction(1, 1, 0, 1, <<(0 :> 2) @@ (1 :> 3)>>, (1 :> <<9, 10>>)),
    GeneratorFunction(2, 4, 1, 3, <<>>, NoInlineLocations),
    NewCodeEntry(FUNCTION_TAG, kRootEntryName),
    NewCodeEntry(FUNCTION_TAG, kProgramEntryName),
    NewCodeEntry(FUNCTION_TAG, kIdleEntryName),
    NewCodeEntry(BUILTIN_TAG, kGarbageCollectorEntryName),
    NewCodeEntry(FUNCTION_TAG, kUnresolvedFunctionName),
    Builtin(3, "kFunctionPrototypeApply", 4),
    GeneratorFunction(4, 5, 2, NULL, <<>>, NoInlineLocations),
    GeneratorFunction(5, 6, 3, NULL, <<>>, NoInlineLocations),
    GeneratorEntry(CodeEntry(FUNCTION_TAG, kEmptyNamePrefix, 6,
                             kEmptyResourceName, 7, kNoScriptId, 0),
                   "builtin_count", 5, <<NoInlineLocations>>,
                   NoInlineLocations),
    Builtin(7, "kFunctionPrototypeCall", 7),
    Builtin(8, "kIllegal", 8)>>

\* code_map_ after the code of the entries 1, 2, 8, 11, 12 and 13 was
\* added: 1 at [1, 3), 2 at [3, 4), 8 at [4, 5), 11 at [5, 6), 12 at [7, 8),
\* 13 at [8, 9); nothing at 0 (nullptr) and at 6.
GeneratorCodeMap ==
  AddCode(AddCode(AddCode(AddCode(AddCode(AddCode(EmptyMap, 1, 1, 2),
                                          3, 2, 1), 4, 8, 1), 5, 11, 1),
                  7, 12, 1), 8, 13, 1)

\* The stacks of a sample: return addresses in entry 1 at the offset of its
\* inline stack, in entry 2, and in no code.
Stacks == UNION {[1..n -> {2, 3, 6}] : n \in 0..MaxFrames}

\* The values of sample.state: the tags of StateTag, and one value that is
\* none of them.
StateTags == {"JS", "GC", "COMPILER", "OTHER", "EXTERNAL", "IDLE", "UNKNOWN"}

\* The samples of a run: a TickSample with its timestamp (not null) and
\* its update_stats flag.
\* its update_stats flag. The callback address of a sample in no callback
\* is not read, and nor is the top-of-stack address of a sample in one.
TickSamples ==
  [pc : {NULL, 2, 3, 4, 6, 7, 8},
   has_external_callback : {FALSE},
   state : StateTags,
   external_callback_entry : {NULL},
   tos : {2, 6},
   stack : Stacks,
   timestamp : {1},
   update_stats : BOOLEAN]
  \cup
  [pc : {NULL, 2, 3, 4, 6, 7, 8},
   has_external_callback : {TRUE},
   state : StateTags,
   external_callback_entry : {5, 6},
   tos : {2},
   stack : Stacks,
   timestamp : {1},
   update_stats : BOOLEAN]

InitGenerator ==
  /\ code_entries = GeneratorRegistry
  /\ code_map = GeneratorCodeMap
  /\ pre_map = EmptyMap
  /\ last_op = NoOp
  /\ deopt_reason = [i \in DOMAIN GeneratorRegistry |-> kNoDeoptReason]
  /\ pre_deopt = deopt_reason
  /\ coll = CpuProfilesCollection
  /\ pre_coll = CpuProfilesCollection
  /\ traversal = NoTraversal
  /\ thread = NoThreads
  /\ deopts = 0
  /\ calls = 0
  /\ samples = 0
  /\ last_call = NoCall
  /\ tree = ProfileTree
  /\ pre_tree = ProfileTree

\* What a call of a run of the generator leaves alone.
GeneratorFrame ==
  UNCHANGED <<mapVars, code_entries, tree, pre_tree, deopts, calls, traversal>>

\* StartProfiling("t1", record_samples) before the sample.
GeneratorStartProfilingStep ==
  \E record_samples \in BOOLEAN :
    /\ last_call = NoCall
    /\ thread.vm.op = "none"
    /\ coll' = StartProfiling(coll, 1, record_samples).coll
    /\ thread' = [thread EXCEPT !.vm.op = "StartProfiling", !.vm.title = 1,
                                !.vm.record_samples = record_samples]
    /\ UNCHANGED <<last_call, pre_coll, pre_deopt, deopt_reason, samples>>
    /\ GeneratorFrame

\* RecordTickSample has made the path r of the sample and passed it on.
Ticked(FLAG_prof_browser_mode, sample, r) ==
  /\ Returned(AddPathToCurrentProfiles(coll, deopt_reason, sample.timestamp,
                                       r.entries, r.src_line,
                                       sample.update_stats))
  /\ last_call' = [NoCall EXCEPT !.op = "RecordTickSample",
                                 !.timestamp = sample.timestamp,
                                 !.path = r.entries, !.src_line = r.src_line,
                                 !.update_stats = sample.update_stats]
  /\ thread' = [thread EXCEPT
                  !.sampler.op = "RecordTickSample",
                  !.sampler.sample =
                    [sample |-> sample,
                     FLAG_prof_browser_mode |-> FLAG_prof_browser_mode]]

\* One sample of the run is recorded, with the path made of it.
RecordTickSampleStep ==
  \E sample \in TickSamples, FLAG_prof_browser_mode \in BOOLEAN :
    /\ last_call = NoCall
    /\ pre_coll' = coll
    /\ pre_deopt' = deopt_reason
    /\ samples' = samples + 1
    /\ Ticked(FLAG_prof_browser_mode, sample,
              RecordTickSample(code_map, FLAG_prof_browser_mode, sample))
    /\ GeneratorFrame

\* StopProfiling("t1") after the sample.
GeneratorStopProfilingStep ==
  /\ last_call.op = "RecordTickSample"
  /\ thread.vm.op = "StartProfiling"
  /\ coll' = StopProfiling(coll, 1).coll
  /\ thread' = [thread EXCEPT !.vm.op = "StopProfiling",
                              !.vm.profile = StopProfiling(coll, 1).profile]
  /\ UNCHANGED <<last_call, pre_coll, pre_deopt, deopt_reason, samples>>
  /\ GeneratorFrame

NextGenerator ==
  \/ GeneratorStartProfilingStep
  \/ RecordTickSampleStep
  \/ GeneratorStopProfilingStep

SpecGenerator == InitGenerator /\ [][NextGenerator]_vars

\* ------------------------------- CpuProfilesCollection: the properties
\* The places of the deopt logs of all profiles that hold the deopt event d.
Logged(c, d) ==
  {<<p, n, k>> \in (DOMAIN c.heap) \X (1..(1 + 2 * MaxCalls)) \X (1..MaxCalls) :
     /\ n \in DOMAIN c.heap[p].top_down.nodes
     /\ k \in DOMAIN c.heap[p].top_down.nodes[n].deopt_infos
     /\ c.heap[p].top_down.nodes[n].deopt_infos[k].deopt_reason = d}

\* The entries that hold the deopt event d as pending.
Pending(deopt, d) == {e \in DOMAIN deopt : deopt[e] = d}

\* The deepest resolved entry of a path, NULL if it has none.
DeepestResolved(path) ==
  IF WithoutNull(path) = <<>> THEN NULL ELSE WithoutNull(path)[1]

RECURSIVE Descend(_, _, _, _)
\* The node reached from node along the children that hold the entries
\* path[i], ..., path[1]; NULL if a child is missing.
Descend(t, node, path, i) ==
  IF i = 0 THEN node
  ELSE LET next == {c \in t.nodes[node].children :
                      t.nodes[c].entry = path[i]}
       IN  IF next = {} THEN NULL
           ELSE Descend(t, CHOOSE c \in next : TRUE, path, i - 1)

\* The deopt logs of all nodes of all profiles.
DeoptLogs(c) ==
  [p \in DOMAIN c.heap |->
     [n \in DOMAIN c.heap[p].top_down.nodes |->
        c.heap[p].top_down.nodes[n].deopt_infos]]

\* C11: a deopt event is pending on its entry or in one place of one deopt
\* log, never both and never twice; a sample whose deepest resolved entry has
\* pending deopt info appends it to the log of the leaf of the first active
\* session and clears it; a sample whose deepest resolved entry has none
\* changes no log.
C11_DeoptAtMostOnce ==
  /\ \A d \in 1..deopts :
       Cardinality(Logged(coll, d)) + Cardinality(Pending(deopt_reason, d)) <= 1
  /\ last_call.op = "AddPathToCurrentProfiles" =>
       LET e == DeepestResolved(last_call.path)
           path == WithoutNull(last_call.path)
       IN  IF e # NULL /\ pre_deopt[e] # kNoDeoptReason
                /\ pre_coll.current_profiles_ # <<>>
           THEN LET p == coll.current_profiles_[1]
                    t == coll.heap[p].top_down
                    leaf == Descend(t, root_, path, Len(path))
                    old == IF leaf \in DOMAIN pre_coll.heap[p].top_down.nodes
                           THEN pre_coll.heap[p].top_down.nodes[leaf].deopt_infos
                           ELSE <<>>
                IN  /\ leaf # NULL
                    /\ Len(t.nodes[leaf].deopt_infos) = Len(old) + 1
                    /\ t.nodes[leaf].deopt_infos[Len(old) + 1].deopt_reason =
                         pre_deopt[e]
                    /\ deopt_reason = [pre_deopt EXCEPT ![e] = kNoDeoptReason]
                    /\ Cardinality(Logged(coll, pre_deopt[e])) = 1
           ELSE /\ deopt_reason = pre_deopt
                /\ \A p \in DOMAIN pre_coll.heap :
                     \A n \in DOMAIN pre_coll.heap[p].top_down.nodes :
                       DeoptLogs(coll)[p][n] = DeoptLogs(pre_coll)[p][n]
                /\ \A p \in DOMAIN coll.heap :
                     \A n \in DOMAIN coll.heap[p].top_down.nodes :
                       n \notin DOMAIN pre_coll.heap[p].top_down.nodes =>
                         DeoptLogs(coll)[p][n] = <<>>

\* A sample with pending deopt info on its deepest entry fanned out to two
\* active sessions.
C11_Witness ==
  /\ last_call.op = "AddPathToCurrentProfiles"
  /\ Len(pre_coll.current_profiles_) >= 2
  /\ DeepestResolved(last_call.path) # NULL
  /\ pre_deopt[DeepestResolved(last_call.path)] # kNoDeoptReason

\* ------------------------------------------- TraverseDepthFirst: the calls
InitTraverse ==
  /\ code_entries =
       Registry(Script(FUNCTION_TAG, 1, 0), Script(FUNCTION_TAG, 1, 1))
  /\ deopt_reason = [i \in PathEntries \cup {root_entry_} |-> kNoDeoptReason]
  /\ pre_deopt = deopt_reason
  /\ tree = ProfileTree
  /\ pre_tree = ProfileTree
  /\ samples = 0
  /\ last_call = NoCall
  /\ code_map = EmptyMap
  /\ pre_map = EmptyMap
  /\ last_op = NoOp
  /\ InitNoColl

\* The tree is built before it is traversed.
AddPathBeforeTraverseStep ==
  \E path \in Paths :
    /\ traversal.phase = "idle"
    /\ samples < MaxSamples
    /\ tree' = AddPathFromEnd(tree, deopt_reason, path, kNoLineNumberInfo,
                              TRUE).tree
    /\ samples' = samples + 1
    /\ UNCHANGED <<mapVars, entryVars, deopt_reason, pre_tree, pre_deopt,
                   collVars, traversal, thread>>

TraverseBeginStep ==
  /\ traversal.phase = "idle"
  /\ traversal' = TraverseBegin(traversal)
  /\ UNCHANGED <<mapVars, entryVars, treeVars, collVars, thread>>

TraverseLoopStep ==
  /\ traversal.phase = "running"
  /\ traversal' = TraverseLoop(tree, traversal)
  /\ UNCHANGED <<mapVars, entryVars, treeVars, collVars, thread>>

NextTraverse ==
  AddPathBeforeTraverseStep \/ TraverseBeginStep \/ TraverseLoopStep

SpecTraverse == InitTraverse /\ [][NextTraverse]_vars

\* The thread that traverses keeps running.
SpecTraverseFair == SpecTraverse /\ WF_vars(TraverseLoopStep)

\* ------------------------------------ TraverseDepthFirst: the properties
\* The places of the trace that hold a call of cb on node.
Calls(cb, node) ==
  {i \in DOMAIN traversal.trace :
     traversal.trace[i].cb = cb /\ traversal.trace[i].node = node}

\* The place of the only call of cb on node.
At(cb, node) == CHOOSE i \in Calls(cb, node) : TRUE

\* The node that has c in its child list.
ParentOf(c) == CHOOSE p \in DOMAIN tree.nodes : c \in tree.nodes[p].children

\* The traversal called the callbacks once per node, with the node's real
\* parent, children within their parent's bracket and siblings in the order
\* of children_list.
TraversalComplete ==
  LET nodes == DOMAIN tree.nodes
      B(c) == At("BeforeTraversingChild", c)
      A(c) == At("AfterAllChildrenTraversed", c)
      C(c) == At("AfterChildTraversed", c)
  IN  /\ \A i \in DOMAIN traversal.trace : traversal.trace[i].node \in nodes
      /\ \A n \in nodes :
           Cardinality(Calls("AfterAllChildrenTraversed", n)) = 1
      /\ Calls("BeforeTraversingChild", root_) = {}
      /\ Calls("AfterChildTraversed", root_) = {}
      /\ Len(traversal.trace) = 3 * Len(tree.nodes) - 2
      /\ \A c \in nodes \ {root_} :
           /\ Cardinality(Calls("BeforeTraversingChild", c)) = 1
           /\ Cardinality(Calls("AfterChildTraversed", c)) = 1
           /\ traversal.trace[B(c)].parent = ParentOf(c)
           /\ traversal.trace[C(c)].parent = ParentOf(c)
           /\ B(c) < A(c)
           /\ A(c) < C(c)
           /\ C(c) < A(ParentOf(c))
           /\ ParentOf(c) # root_ => B(ParentOf(c)) < B(c)
      /\ \A n \in nodes :
           \A i \in 1..(Len(tree.nodes[n].children_list) - 1) :
             C(tree.nodes[n].children_list[i])
               < B(tree.nodes[n].children_list[i + 1])

\* C12: TraverseDepthFirst terminates, and when it has, it has called
\* AfterAllChildrenTraversed once per node and BeforeTraversingChild and
\* AfterChildTraversed once per non-root node with its real parent, in the
\* order before(p,c) < callbacks of c's subtree < after-all(c) <
\* after-child(p,c) < after-all(p), siblings in insertion order.
C12_Traversal ==
  /\ [](traversal.phase = "done" => TraversalComplete)
  /\ (traversal.phase = "running" ~> traversal.phase = "done")

\* A finished traversal of a tree in which a node has two children and one
\* of them a child.
C12_Witness ==
  /\ traversal.phase = "done"
  /\ \E n \in DOMAIN tree.nodes : Len(tree.nodes[n].children_list) = 2
  /\ \E n \in DOMAIN tree.nodes \ {root_} : tree.nodes[n].children # {}

\* The titles of the active sessions, in start order.
ActiveTitles(c) ==
  [i \in 1..Len(c.current_profiles_) |-> c.heap[c.current_profiles_[i]].title]

\* C13: StartProfiling(t, _) while a session titled t is active and fewer
\* than kMaxSimultaneousProfiles sessions are active returns true and changes
\* nothing; after a successful StartProfiling(t, _) one active session has
\* title t and a second call changes nothing; active titles are pairwise
\* distinct.
C13_IdempotentStart ==
  /\ \A i, j \in 1..Len(coll.current_profiles_) :
       i # j => ActiveTitles(coll)[i] # ActiveTitles(coll)[j]
  /\ last_call.op = "StartProfiling" =>
       /\ (/\ TitleMatches(pre_coll, last_call.title) # {}
           /\ Len(pre_coll.current_profiles_) < kMaxSimultaneousProfiles) =>
            last_call.ret /\ coll = pre_coll
       /\ last_call.ret =>
            /\ Cardinality(TitleMatches(coll, last_call.title)) = 1
            /\ Len(coll.current_profiles_) < kMaxSimultaneousProfiles =>
                 \A record_samples \in BOOLEAN :
                   StartProfiling(coll, last_call.title, record_samples) =
                     [coll |-> coll, ret |-> TRUE]

\* A second StartProfiling of an active title, with the other record_samples
\* flag, on a session that has taken a sample.
C13_Witness ==
  /\ last_call.op = "StartProfiling"
  /\ last_call.ret
  /\ \E i \in TitleMatches(pre_coll, last_call.title) :
       LET profile == pre_coll.heap[pre_coll.current_profiles_[i]]
       IN  /\ profile.record_samples # last_call.record_samples
           /\ Len(profile.top_down.nodes) > 1

\* C14: at most kMaxSimultaneousProfiles sessions are active; StartProfiling
\* of a new title succeeds and adds a session while fewer are active, and
\* returns false and leaves the active list as it is once the maximum is
\* active.
C14_SessionLimit ==
  /\ Len(coll.current_profiles_) <= kMaxSimultaneousProfiles
  /\ last_call.op = "StartProfiling" =>
       IF Len(pre_coll.current_profiles_) = kMaxSimultaneousProfiles
       THEN /\ ~last_call.ret
            /\ coll.current_profiles_ = pre_coll.current_profiles_
       ELSE /\ last_call.ret
            /\ TitleMatches(pre_coll, last_call.title) = {} =>
                 /\ Len(coll.current_profiles_) =
                      Len(pre_coll.current_profiles_) + 1
                 /\ TitleMatches(coll, last_call.title) =
                      {Len(coll.current_profiles_)}

\* StartProfiling of a new title refused with the maximum of sessions active.
C14_Witness ==
  /\ last_call.op = "StartProfiling"
  /\ ~last_call.ret
  /\ Len(coll.current_profiles_) = kMaxSimultaneousProfiles
  /\ TitleMatches(pre_coll, last_call.title) = {}

\* The VM thread is inside StartProfiling with the semaphore taken.
StartLocked ==
  /\ thread.vm.op = "StartProfiling"
  /\ thread.vm.pc \in {"locked", "signal"}

\* C15: a StartProfiling call that returns false leaves the collection (the
\* active list, the finished list, every profile with its tree and samples,
\* and the semaphore count) and the entries' deopt information as they were
\* when it took the semaphore; a call that finds the list at the limit is
\* refused at once, and no step from there to its return can block.
C15_RefusedStartMutatesNothing ==
  /\ [][(VmStartSignalStep /\ ~thread.vm.ret)
          => /\ coll' = thread.vm.seen
             /\ deopt_reason' = thread.vm.seen_deopt]_vars
  /\ [][(VmStartLockedStep
           /\ Len(coll.current_profiles_) >= kMaxSimultaneousProfiles)
          => (thread'.vm.pc = "signal" /\ ~thread'.vm.ret)]_vars
  /\ [](StartLocked => ENABLED VmRun)

\* A refused StartProfiling has returned on a collection with ticks in the
\* trees of its active profiles.
C15_Witness ==
  /\ thread.vm.op = "StartProfiling"
  /\ thread.vm.pc = "idle"
  /\ ~thread.vm.ret
  /\ coll = thread.vm.seen
  /\ Len(coll.current_profiles_) = kMaxSimultaneousProfiles
  /\ \A i \in 1..Len(coll.current_profiles_) :
        Len(coll.heap[coll.current_profiles_[i]].top_down.nodes) > 1

\* The active session at place i of c matches the title of a StopProfiling.
StopMatches(c, title, i) ==
  title = 0 \/ c.heap[c.current_profiles_[i]].title = title

\* C16: a StopProfiling(title) that some active session matches (every
\* session matches the empty title) returns the matching session started
\* last and takes exactly that one out of the active list; the other active
\* sessions stay, in the same order.
C16_StopMostRecent ==
  LET act == pre_coll.current_profiles_
      title == last_call.title
      hits == {i \in 1..Len(act) : StopMatches(pre_coll, title, i)}
  IN  (last_call.op = "StopProfiling" /\ hits # {}) =>
        \E k \in hits :
          /\ \A j \in hits : j <= k
          /\ last_call.profile = act[k]
          /\ coll.current_profiles_ =
               SubSeq(act, 1, k - 1) \o SubSeq(act, k + 1, Len(act))
          /\ \A i \in 1..Len(coll.current_profiles_) :
               coll.current_profiles_[i] # act[k]

\* StopProfiling with the empty title while two sessions with other titles
\* are active.
C16_Witness ==
  /\ last_call.op = "StopProfiling"
  /\ last_call.title = 0
  /\ Len(pre_coll.current_profiles_) = 2
  /\ TitleMatches(pre_coll, 0) = {}
  /\ last_call.profile = pre_coll.current_profiles_[2]

\* C17: a StopProfiling(title) that no active session matches (a non-empty
\* title no active session has, or any title while none is active) returns
\* NULL and leaves the active list, the finished list and every profile as
\* they were.
C17_StopNoMatch ==
  LET act == pre_coll.current_profiles_
      hits == {i \in 1..Len(act) : StopMatches(pre_coll, last_call.title, i)}
  IN  (last_call.op = "StopProfiling" /\ hits = {}) =>
        /\ last_call.profile = NULL
        /\ coll = pre_coll
        /\ deopt_reason = pre_deopt

\* StopProfiling of a title no active session has, while two sessions are
\* active, one of them with ticks.
C17_Witness ==
  /\ last_call.op = "StopProfiling"
  /\ last_call.title # 0
  /\ last_call.profile = NULL
  /\ Len(pre_coll.current_profiles_) = 2
  /\ \E i \in 1..Len(pre_coll.current_profiles_) :
       Len(pre_coll.heap[pre_coll.current_profiles_[i]].top_down.nodes) > 1

\* The profiles in a list.
Members(list) == {list[i] : i \in 1..Len(list)}

\* No profile is in both lists, and end_time_ is set for the finished ones
\* and never twice.
LifecycleState ==
  /\ Members(coll.current_profiles_) \cap Members(coll.finished_profiles_) = {}
  /\ \A p \in Members(coll.current_profiles_) : coll.heap[p].end_time_ = 0
  /\ \A p \in Members(coll.finished_profiles_) : coll.heap[p].end_time_ = 1
  /\ \A p \in DOMAIN coll.heap : coll.heap[p].end_time_ <= 1

\* The steps by which a profile changes lists.
LifecycleStep ==
  /\ \A p \in Members(coll'.current_profiles_) :
       p \notin Members(coll.current_profiles_) =>
         /\ p \notin DOMAIN coll.heap
         /\ VmStartLockedStep
  /\ \A p \in Members(coll'.finished_profiles_) :
       p \notin Members(coll.finished_profiles_) =>
         /\ VmStopFinishStep
         /\ p = thread.vm.profile
         /\ p \in Members(thread.vm.seen.current_profiles_)
  /\ \A p \in Members(coll.finished_profiles_) :
       p \notin Members(coll'.finished_profiles_) =>
         /\ VmRemoveProfileStep
         /\ p = thread'.vm.profile
  /\ \A p \in DOMAIN coll.heap :
       coll'.heap[p].end_time_ # coll.heap[p].end_time_ =>
         /\ VmStopFinishStep
         /\ p \in Members(coll'.finished_profiles_)

\* C18: a profile enters the active list only as a new object made by
\* StartProfiling, enters the finished list only at the end of a
\* StopProfiling that took it out of the active list, and leaves the
\* finished list only in RemoveProfile; end_time_ is set once, on the way to
\* the finished list; no profile is in both lists, and a profile that has
\* left the active list never enters it again.
C18_Lifecycle == [](LifecycleState) /\ [][LifecycleStep]_vars

\* A profile with ticks was started, stopped and removed.
C18_Witness ==
  /\ thread.vm.op = "RemoveProfile"
  /\ ~coll.unreachable
  /\ thread.vm.profile \notin Members(coll.current_profiles_)
  /\ thread.vm.profile \notin Members(coll.finished_profiles_)
  /\ coll.heap[thread.vm.profile].end_time_ = 1
  /\ Len(coll.heap[thread.vm.profile].top_down.nodes) > 1

\* The tree of the active session at place i before the recorded call.
PreTree(i) == pre_coll.heap[pre_coll.current_profiles_[i]].top_down

RECURSIVE DeoptBefore(_)
\* The entries' deopt reasons when the recorded sample reaches the session
\* at place i, the sessions before it having been served in start order.
DeoptBefore(i) ==
  IF i = 1 THEN pre_deopt
  ELSE AddPathFromEnd(PreTree(i - 1), DeoptBefore(i - 1), last_call.path,
                      last_call.src_line, last_call.update_stats).deopt

\* C19: AddPathToCurrentProfiles applies AddPathFromEnd(path, src_line,
\* update_stats) once to the tree of every active session, in start order
\* (pending deopt information goes to the sessions in that order); profiles
\* outside the active list, the two lists, and the other fields of the
\* active profiles stay as they were, but for the recorded sample.
C19_FanOut ==
  LET act == pre_coll.current_profiles_
  IN  last_call.op = "AddPathToCurrentProfiles" =>
        /\ coll.current_profiles_ = act
        /\ coll.finished_profiles_ = pre_coll.finished_profiles_
        /\ DOMAIN coll.heap = DOMAIN pre_coll.heap
        /\ \A p \in DOMAIN coll.heap \ Members(act) :
             coll.heap[p] = pre_coll.heap[p]
        /\ \A i \in 1..Len(act) :
             LET now == coll.heap[act[i]]
                 was == pre_coll.heap[act[i]]
             IN  /\ now.top_down =
                      AddPathFromEnd(PreTree(i), DeoptBefore(i),
                                     last_call.path, last_call.src_line,
                                     last_call.update_stats).tree
                 /\ now.title = was.title
                 /\ now.record_samples = was.record_samples
                 /\ now.end_time_ = was.end_time_
        /\ deopt_reason = DeoptBefore(Len(act) + 1)

\* A sample with ticks reached two active sessions while deopt information
\* was pending for its function.
C19_Witness ==
  /\ last_call.op = "AddPathToCurrentProfiles"
  /\ last_call.update_stats
  /\ Len(pre_coll.current_profiles_) = 2
  /\ deopt_reason # pre_deopt

\* The thread holds the semaphore.
InCriticalSection(t) == thread[t].pc \in {"locked", "signal"}

\* What the fan-out of the sampler's sample does to the collection it saw
\* when it took the semaphore.
FannedOut ==
  AddPathToCurrentProfiles(thread.sampler.seen, thread.sampler.seen_deopt,
                           thread.sampler.timestamp,
                           thread.sampler.sample.path,
                           thread.sampler.sample.src_line,
                           thread.sampler.sample.update_stats)

\* C20: the sampler thread (AddPathToCurrentProfiles) and the VM thread
\* (StartProfiling, StopProfiling) are never both between Wait and Signal;
\* while the sampler is there the active list is the one it saw when it took
\* the semaphore, and at the end of its loop every session of that list, and
\* no other profile, has received the sample.
C20_MutualExclusion ==
  /\ ~(InCriticalSection("vm") /\ InCriticalSection("sampler"))
  /\ coll.current_profiles_semaphore_ =
       IF InCriticalSection("vm") \/ InCriticalSection("sampler") THEN 0 ELSE 1
  /\ InCriticalSection("sampler") =>
       LET seen == thread.sampler.seen
           act == seen.current_profiles_
       IN  /\ coll.current_profiles_ = act
           /\ \A i \in 1..Len(act) :
                coll.heap[act[i]] =
                  IF i < thread.sampler.i THEN FannedOut.coll.heap[act[i]]
                  ELSE seen.heap[act[i]]
           /\ thread.sampler.pc = "signal" =>
                /\ thread.sampler.i = Len(act) + 1
                /\ deopt_reason = FannedOut.deopt

\* The sampler is halfway through a list of two sessions while the VM thread
\* waits for the semaphore.
C20_Witness ==
  /\ thread.sampler.pc = "locked"
  /\ thread.sampler.i = 2
  /\ Len(coll.current_profiles_) = 2
  /\ thread.vm.pc = "wait"

\* StopProfiling has taken the profile out of the active list: the call is
\* past its loop with it, or has finished it, or the profile is in neither
\* list any more.
Stopped(p) ==
  \/ p \notin Members(coll.current_profiles_)
  \/ p \in Members(coll.finished_profiles_)
  \/ /\ thread.vm.op = "StopProfiling"
     /\ thread.vm.pc \in {"signal", "finish"}
     /\ thread.vm.profile = p

\* No step changes the tree or the sample log of a stopped profile.
StoppedUntouched ==
  \A p \in DOMAIN coll.heap :
    Stopped(p) =>
      /\ coll'.heap[p].top_down = coll.heap[p].top_down
      /\ coll'.heap[p].samples = coll.heap[p].samples
      /\ coll'.heap[p].timestamps = coll.heap[p].timestamps

\* C21: under every interleaving of the sampler's AddPathToCurrentProfiles
\* with the VM thread's StopProfiling and RemoveProfile, the tree and the
\* sample log of a profile do not change once StopProfiling has taken it out
\* of the active list: not before its end time is set, not after it is
\* finished, not after it is removed.
C21_StoppedProfileUntouched == [][StoppedUntouched]_vars

\* The sampler serves the remaining session while StopProfiling, past its
\* Signal, has yet to finish a profile with ticks.
C21_Witness ==
  /\ thread.vm.op = "StopProfiling"
  /\ thread.vm.pc = "finish"
  /\ thread.vm.profile # NULL
  /\ Len(coll.heap[thread.vm.profile].top_down.nodes) > 1
  /\ thread.sampler.pc = "locked"
  /\ thread.sampler.i = 2
  /\ Len(coll.current_profiles_) = 1

C23_SampleLog ==
  /\ \A p \in DOMAIN coll.heap :
       /\ ~coll.heap[p].record_samples =>
            coll.heap[p].samples = <<>> /\ coll.heap[p].timestamps = <<>>
       /\ \A i, j \in 1..Len(coll.heap[p].timestamps) :
            i < j => coll.heap[p].timestamps[i] < coll.heap[p].timestamps[j]
  /\ last_call.op = "AddPathToCurrentProfiles" =>
       \A p \in Members(pre_coll.current_profiles_) :
         LET now == coll.heap[p]
             was == pre_coll.heap[p]
         IN  IF was.record_samples /\ last_call.timestamp # 0
             THEN /\ now.timestamps = Append(was.timestamps, last_call.timestamp)
                  /\ Len(now.samples) = Len(was.samples) + 1
                  /\ SubSeq(now.samples, 1, Len(was.samples)) = was.samples
             ELSE /\ now.timestamps = was.timestamps
                  /\ now.samples = was.samples

\* A sample with a timestamp and without update_stats reaches a session that
\* records samples and has logged one, and a session that records none.
C23_Witness ==
  /\ last_call.op = "AddPathToCurrentProfiles"
  /\ ~last_call.update_stats
  /\ last_call.timestamp # 0
  /\ \E p \in Members(pre_coll.current_profiles_) :
       pre_coll.heap[p].record_samples /\ Len(pre_coll.heap[p].samples) = 1
  /\ \E p \in Members(pre_coll.current_profiles_) :
       ~pre_coll.heap[p].record_samples

\* The node of tree t that the resolved entries of a path lead to from the
\* root.
LeafOf(t, path) == Descend(t, root_, WithoutNull(path), Len(WithoutNull(path)))

\* The last entry of a list.
Last(list) == list[Len(list)]

\* C24: the timestamp list and the node list of a profile have equal
\* length and every logged node is a node of the profile's own tree; the
\* entry logged for a sample is the node AddPathFromEnd returned for it,
\* which is the leaf of the sample's path in that tree, and the nodes logged
\* before stay in the tree with their entries.
C24_SampleLogNodes ==
  /\ \A p \in DOMAIN coll.heap :
       /\ Len(coll.heap[p].samples) = Len(coll.heap[p].timestamps)
       /\ \A i \in 1..Len(coll.heap[p].samples) :
            coll.heap[p].samples[i] \in DOMAIN coll.heap[p].top_down.nodes
  /\ last_call.op = "AddPathToCurrentProfiles" =>
       \A p \in Members(pre_coll.current_profiles_) :
         LET now == coll.heap[p]
             was == pre_coll.heap[p]
         IN  /\ \A n \in DOMAIN was.top_down.nodes :
                  /\ n \in DOMAIN now.top_down.nodes
                  /\ now.top_down.nodes[n].entry = was.top_down.nodes[n].entry
             /\ (was.record_samples /\ last_call.timestamp # 0) =>
                  /\ Last(now.samples) = LeafOf(now.top_down, last_call.path)
                  /\ Last(now.samples) =
                       AddPathFromEnd(was.top_down, pre_deopt, last_call.path,
                                      last_call.src_line,
                                      last_call.update_stats).node

\* A sample is logged by two sessions whose trees hold its leaf at different
\* nodes.
C24_Witness ==
  /\ last_call.op = "AddPathToCurrentProfiles"
  /\ last_call.timestamp # 0
  /\ Len(coll.current_profiles_) = 2
  /\ \A p \in Members(coll.current_profiles_) :
       /\ coll.heap[p].record_samples
       /\ Len(coll.heap[p].samples) > Len(pre_coll.heap[p].samples)
  /\ \E p, q \in Members(coll.current_profiles_) :
       Last(coll.heap[p].samples) # Last(coll.heap[q].samples)

\* ----------------------------------------- ProfileGenerator: the properties
\* A sample has been recorded.
Recorded == last_call.op = "RecordTickSample"

\* The sample that was recorded.
TheSample == thread.sampler.sample.sample

\* The entries that the addresses on the stack of the sample contribute.
StackPart == StackFrames(code_map, NoFrames, TheSample.stack, 1).entries

\* The part of a path from its i-th entry on.
From(path, i) == SubSeq(path, i, Len(path))

\* The pc of the sample is in the code of the apply or the call builtin.
PcInTrampoline ==
  /\ TheSample.pc # NULL
  /\ FindEntry(code_map, TheSample.pc) # NULL
  /\ code_entries[FindEntry(code_map, TheSample.pc)].builtin_id
       \in {"kFunctionPrototypeApply", "kFunctionPrototypeCall"}

\* C25: a sample whose pc resolves to the apply or the call builtin and that
\* has no external callback gives a path with that entry first, the
\* unresolved entry second and the entries of the stack after them; the path
\* of every other sample does not contain the unresolved entry.
C25_Trampoline ==
  Recorded =>
    IF PcInTrampoline /\ ~TheSample.has_external_callback
    THEN /\ Len(last_call.path) >= 2
         /\ last_call.path[1] = FindEntry(code_map, TheSample.pc)
         /\ last_call.path[2] = unresolved_entry_
         /\ From(last_call.path, 3) = StackPart
         /\ unresolved_entry_ \notin Members(StackPart)
    ELSE unresolved_entry_ \notin Members(last_call.path)

\* The call builtin was sampled with a frame under it.
C25_Witness ==
  /\ Recorded
  /\ PcInTrampoline
  /\ ~TheSample.has_external_callback
  /\ code_entries[last_call.path[1]].builtin_id = "kFunctionPrototypeCall"
  /\ last_call.path[2] = unresolved_entry_
  /\ Len(last_call.path) > 2

\* The run was: code registered, StartProfiling("t1"), one sample with an
\* empty stack, no external callback and update_stats set whose pc is in the
\* code of a function with a declared line, StopProfiling("t1").
Scenario ==
  /\ Recorded
  /\ thread.vm.op = "StopProfiling"
  /\ TheSample.pc # NULL
  /\ FindEntry(code_map, TheSample.pc) # NULL
  /\ code_entries[FindEntry(code_map, TheSample.pc)].line_number
       # kNoLineNumberInfo
  /\ TheSample.stack = <<>>
  /\ ~TheSample.has_external_callback
  /\ TheSample.update_stats

\* The line of the scenario: the one the line table of entry maps the
\* offset to, or the declared one.
ScenarioLine(entry, pc_offset) ==
  IF code_entries[entry].line_info_ # <<>>
     /\ pc_offset \in DOMAIN code_entries[entry].line_info_[1]
  THEN code_entries[entry].line_info_[1][pc_offset]
  ELSE code_entries[entry].line_number

\* C26: after the scenario StopProfiling has returned a profile whose tree is
\* the root with self-ticks 0 and one child, the sampled function, with
\* self-ticks 1, no children and a line histogram of one entry, with count 1,
\* for the line of the sample.
C26_EndToEnd ==
  Scenario =>
    /\ thread.vm.profile # NULL
    /\ LET t == coll.heap[thread.vm.profile].top_down
           A == FindEntry(code_map, TheSample.pc)
       IN  /\ Len(t.nodes) = 2
           /\ t.nodes[root_].entry = root_entry_
           /\ t.nodes[root_].self_ticks = 0
           /\ t.nodes[root_].children = {2}
           /\ t.nodes[root_].children_list = <<2>>
           /\ t.nodes[root_].line_ticks = NoLineTicks
           /\ t.nodes[2].entry = A
           /\ t.nodes[2].self_ticks = 1
           /\ t.nodes[2].children = {}
           /\ t.nodes[2].line_ticks =
                (ScenarioLine(A, TheSample.pc
                                   - code_entries[A].instruction_start) :> 1)

\* The scenario was run with a function whose line table maps the offset of
\* the sample to a line that is not its declared one.
C26_Witness ==
  /\ Scenario
  /\ coll.finished_profiles_ = <<thread.vm.profile>>
  /\ DOMAIN coll.heap[thread.vm.profile].top_down.nodes[2].line_ticks
       # {code_entries[FindEntry(code_map, TheSample.pc)].line_number}

\* C27: the path of a sample with has_external_callback set, whatever its
\* state, starts with the entry FindEntry gives for external_callback_entry,
\* followed by the entries of the stack: no entry of it comes from pc or
\* from tos.
C27_ExternalCallback ==
  Recorded /\ TheSample.has_external_callback =>
    /\ Len(last_call.path) >= 1 + Len(StackPart)
    /\ last_call.path[1]
         = FindEntry(code_map, TheSample.external_callback_entry)
    /\ SubSeq(last_call.path, 2, 1 + Len(StackPart)) = StackPart

\* The entry of pc, or of tos when pc is in no code.
PcOrTos ==
  IF FindEntry(code_map, TheSample.pc) # NULL
  THEN FindEntry(code_map, TheSample.pc)
  ELSE FindEntry(code_map, TheSample.tos)

\* The path starts with the entry of pc when pc is in code, with the entry
\* of tos when pc is in no code and tos is, and has no entry for pc when
\* neither is: then it is the entries of the stack, with at most the VM
\* state entry after them.
InnermostIsPcOrTos ==
    IF PcOrTos # NULL
    THEN /\ Len(last_call.path) >= 1 + Len(StackPart)
         /\ last_call.path[1] = PcOrTos
         /\ From(last_call.path, Len(last_call.path) - Len(StackPart) + 1)
              = StackPart
    ELSE /\ Len(last_call.path) \in {Len(StackPart), Len(StackPart) + 1}
         /\ SubSeq(last_call.path, 1, Len(StackPart)) = StackPart

\* C28 as stated: the innermost frame of every sample with
\* has_external_callback not set is the entry of pc, or of tos when pc is in
\* no code.
C28_PcOrTos ==
  Recorded /\ ~TheSample.has_external_callback => InnermostIsPcOrTos

\* C28, amended: that holds for the samples whose pc is not null; a sample
\* with a null pc gives no frame, whatever its tos and its stack are: its
\* path is empty or the VM state entry alone.
C28_PcOrTosNonNull ==
  Recorded /\ ~TheSample.has_external_callback =>
    IF TheSample.pc # NULL THEN InnermostIsPcOrTos
    ELSE \/ last_call.path = <<>>
         \/ last_call.path = <<EntryForVMState(TheSample.state)>>

\* A sample whose pc is in no code and whose tos is in a function was
\* recorded with a frame under it.
C28_Witness ==
  /\ Recorded
  /\ ~TheSample.has_external_callback
  /\ TheSample.pc # NULL
  /\ FindEntry(code_map, TheSample.pc) = NULL
  /\ FindEntry(code_map, TheSample.tos) # NULL
  /\ last_call.path[1] = FindEntry(code_map, TheSample.tos)
  /\ Len(last_call.path) > 1

\* The addresses that give the frames of the path of the sample, innermost
\* first, each with the entry it resolves to: the callback address or pc
\* (tos), then the addresses of the stack.
FrameAddresses ==
  <<IF InExternalCallback(TheSample)
    THEN [entry |-> FindEntry(code_map, TheSample.external_callback_entry),
          address |-> TheSample.external_callback_entry]
    ELSE [entry |-> PcEntry(code_map, TheSample), address |-> TheSample.pc]>>
  \o [i \in 1..Len(TheSample.stack) |->
        [entry |-> FindEntry(code_map, TheSample.stack[i]),
         address |-> TheSample.stack[i]]]

\* The line of the first of the frames that resolved: the line its table
\* gives for the offset of the address, or its declared line; no line when
\* none resolved.
LineOfInnermost(frames) ==
  LET resolved == {i \in DOMAIN frames : frames[i].entry # NULL}
  IN  IF resolved = {} THEN kNoLineNumberInfo
      ELSE LET first == frames[CHOOSE i \in resolved :
                                 \A j \in resolved : i <= j]
           IN  SourceLineAt(first.entry,
                            first.address
                              - code_entries[first.entry].instruction_start)

\* C29: the line passed to AddPathToCurrentProfiles is the line of the
\* innermost resolved frame of the path, never one of a frame further out,
\* and no line when no frame resolved.
C29_RepresentativeLine ==
  Recorded =>
    last_call.src_line = IF TheSample.pc = NULL THEN kNoLineNumberInfo
                         ELSE LineOfInnermost(FrameAddresses)

\* What a return address is to contribute to the path: a null entry when it
\* is in no code, the inlined entries, innermost first, when its code has an
\* inline stack for its offset, and else the entry of its code.
Contribution(address) ==
  LET entry == FindEntry(code_map, address)
  IN  IF entry = NULL THEN <<NULL>>
      ELSE LET inline_stack ==
                 GetInlineStack(entry,
                                address - code_entries[entry].instruction_start)
           IN  IF inline_stack # <<>> THEN Reversed(inline_stack[1])
               ELSE <<entry>>

RECURSIVE Contributions(_, _)
\* The contributions of the addresses of a stack from the i-th on, in the
\* order of the stack.
Contributions(stack, i) ==
  IF i > Len(stack) THEN <<>>
  ELSE Contribution(stack[i]) \o Contributions(stack, i + 1)

\* The entries of the path that come before those of the stack.
InnermostCount ==
  IF TheSample.pc = NULL THEN 0
  ELSE Len(InnermostFrames(code_map, TheSample).entries)

\* C30: after the innermost entries the path holds, for each return address
\* of the stack in order, the inlined entries in place of the resolved entry
\* when there is an inline stack for the offset, the resolved entry alone
\* when there is none, and a null entry when the address is in no code; only
\* the VM state entry may follow.
C30_InlineInPlace ==
  Recorded =>
    \/ From(last_call.path, InnermostCount + 1)
         = Contributions(TheSample.stack, 1)
    \/ From(last_call.path, InnermostCount + 1)
         = Append(Contributions(TheSample.stack, 1),
                  EntryForVMState(TheSample.state))

\* The attribution mode of the sample that was recorded.
TheMode == thread.sampler.sample.FLAG_prof_browser_mode

\* The entries that pc, the callback address and the stack gave.
FrameEntries == Frames(code_map, TheSample).entries

\* None of them is an entry of code.
NoFrameResolved == \A i \in 1..Len(FrameEntries) : FrameEntries[i] = NULL

\* The three entries that stand for a VM state.
VMStateEntries == {program_entry_, idle_entry_, gc_entry_}

\* sample.state is one of the tags of StateTag.
KnownState ==
  TheSample.state \in {"GC", "JS", "COMPILER", "OTHER", "EXTERNAL", "IDLE"}

\* C31: with FLAG_prof_browser_mode set and no frame resolved the path ends
\* with one added entry, gc_entry_ for GC, program_entry_ for JS, COMPILER,
\* OTHER and EXTERNAL, idle_entry_ for IDLE; with the flag not set, or with a
\* frame resolved, nothing is added and none of the three is in the path.
C31_VMState ==
  Recorded =>
    IF TheMode /\ NoFrameResolved
    THEN KnownState =>
           last_call.path =
             Append(FrameEntries,
                    IF TheSample.state = "GC" THEN gc_entry_
                    ELSE IF TheSample.state = "IDLE" THEN idle_entry_
                    ELSE program_entry_)
    ELSE /\ last_call.path = FrameEntries
         /\ Members(last_call.path) \cap VMStateEntries = {}

\* A sample in GC of which neither pc, nor tos, nor the return address
\* resolved was recorded in the attribution mode.
C31_Witness ==
  /\ Recorded
  /\ TheMode
  /\ TheSample.pc # NULL
  /\ TheSample.stack # <<>>
  /\ NoFrameResolved
  /\ TheSample.state = "GC"
  /\ last_call.path = <<NULL, gc_entry_>>

\* C32: a sample recorded with FLAG_prof_browser_mode set, no frame
\* resolved and a state that is none of the six tags is dropped: its path is
\* empty, and no tree and no sample log of a profile has changed.
C32_UnknownStateDropped ==
  Recorded /\ TheMode /\ NoFrameResolved /\ ~KnownState =>
    /\ last_call.path = <<>>
    /\ \A p \in DOMAIN pre_coll.heap :
         /\ coll.heap[p].top_down = pre_coll.heap[p].top_down
         /\ coll.heap[p].samples = pre_coll.heap[p].samples
         /\ coll.heap[p].timestamps = pre_coll.heap[p].timestamps

\* ------------------------------------------- ProfileTree: the structure
\* The nodes that have node n as a child.
ParentsOf(t, n) == {m \in DOMAIN t.nodes : n \in t.nodes[m].children}

RECURSIVE ReachableFrom(_, _, _)
\* The nodes reached from the nodes of `seen` by at most k child links.
ReachableFrom(t, seen, k) ==
  IF k = 0 THEN seen
  ELSE ReachableFrom(t, seen \cup UNION {t.nodes[m].children : m \in seen},
                     k - 1)

\* The root is the one node without a parent and its entry is "(root)";
\* every other node has one parent and is reached from the root.
OneRoot(t) ==
  /\ t.nodes[root_].entry = root_entry_
  /\ code_entries[root_entry_].name = kRootEntryName
  /\ ParentsOf(t, root_) = {}
  /\ \A n \in DOMAIN t.nodes \ {root_} : Cardinality(ParentsOf(t, n)) = 1
  /\ ReachableFrom(t, {root_}, Len(t.nodes)) = DOMAIN t.nodes

\* No node has two children whose entries are the same function.
NoEquivalentChildren(t) ==
  \A m \in DOMAIN t.nodes :
    \A c, d \in t.nodes[m].children :
      c # d => ~SameFunction(t.nodes[c].entry, t.nodes[d].entry)

\* children_list_ holds the nodes of children_, each once.
ListIsMap(t) ==
  \A m \in DOMAIN t.nodes :
    /\ Members(t.nodes[m].children_list) = t.nodes[m].children
    /\ Len(t.nodes[m].children_list) = Cardinality(t.nodes[m].children)

\* The ids are distinct and rise in the order of creation.
IdsRise(t) ==
  /\ \A m, n \in DOMAIN t.nodes : m < n => t.nodes[m].id < t.nodes[n].id
  /\ \A n \in DOMAIN t.nodes : t.nodes[n].id < t.next_node_id_

\* C33: the tree has one root, with the entry "(root)"; every other node is
\* reached from the root and is the child of one node; no two children of a
\* node are the same function; the child list and the child map of a node
\* hold the same nodes; ids are distinct and rise in creation order.
C33_TreeStructure ==
  /\ OneRoot(tree)
  /\ NoEquivalentChildren(tree)
  /\ ListIsMap(tree)
  /\ IdsRise(tree)

\* --------------------------------------------- the aggregation as a whole
\* list has the entries of old as its first entries.
Extends(list, old) ==
  /\ Len(list) >= Len(old)
  /\ SubSeq(list, 1, Len(old)) = old

\* The tree t has every node of the tree old, with the same entry and id, no
\* child, self tick, line tick or deopt info less.
TreeGrown(t, old) ==
  /\ Len(t.nodes) >= Len(old.nodes)
  /\ \A n \in DOMAIN old.nodes :
       /\ t.nodes[n].entry = old.nodes[n].entry
       /\ t.nodes[n].id = old.nodes[n].id
       /\ t.nodes[n].self_ticks >= old.nodes[n].self_ticks
       /\ old.nodes[n].children \subseteq t.nodes[n].children
       /\ Extends(t.nodes[n].children_list, old.nodes[n].children_list)
       /\ Extends(t.nodes[n].deopt_infos, old.nodes[n].deopt_infos)
       /\ \A l \in DOMAIN old.nodes[n].line_ticks :
            /\ l \in DOMAIN t.nodes[n].line_ticks
            /\ t.nodes[n].line_ticks[l] >= old.nodes[n].line_ticks[l]

\* A step takes nothing away from a profile.
AppendOnly ==
  /\ Len(coll'.heap) >= Len(coll.heap)
  /\ \A p \in DOMAIN coll.heap :
       /\ TreeGrown(coll'.heap[p].top_down, coll.heap[p].top_down)
       /\ Extends(coll'.heap[p].samples, coll.heap[p].samples)
       /\ Extends(coll'.heap[p].timestamps, coll.heap[p].timestamps)

\* C34: no operation lowers a self-tick count or a line-tick count of a node
\* of a profile, removes a node from its tree, or removes an entry from a
\* deopt log or from its sample log.
C34_AppendOnly == [][AppendOnly]_vars

\* A profile has a node that was ticked twice on one line and a sample log
\* of two entries.
C34_Witness ==
  \E p \in DOMAIN coll.heap :
    /\ Len(coll.heap[p].samples) >= 2
    /\ \E n \in DOMAIN coll.heap[p].top_down.nodes :
         /\ coll.heap[p].top_down.nodes[n].self_ticks >= 2
         /\ \E l \in DOMAIN coll.heap[p].top_down.nodes[n].line_ticks :
              coll.heap[p].top_down.nodes[n].line_ticks[l] >= 2

\* The line histogram a node had before the recorded call.
PreLineTicks(n) ==
  IF n \in DOMAIN pre_tree.nodes THEN pre_tree.nodes[n].line_ticks
  ELSE NoLineTicks

\* The histogram ticks with one tick more on the line l.
OneMoreOn(ticks, l) ==
  [k \in DOMAIN ticks \cup {l} |->
     (IF k \in DOMAIN ticks THEN ticks[k] ELSE 0) + (IF k = l THEN 1 ELSE 0)]

\* C35: AddPathFromEnd without update_stats changes no self-tick count and
\* no line histogram; with update_stats and no line it raises the self-tick
\* count of the returned node by one and changes no histogram; with
\* update_stats and a line it also raises that node's count for that line by
\* one, and nothing else.
C35_UpdateStats ==
  last_call.op = "AddPathFromEnd" =>
    \A n \in DOMAIN tree.nodes :
      /\ tree.nodes[n].self_ticks =
           PreSelfTicks(n)
           + (IF last_call.update_stats /\ n = last_call.node THEN 1 ELSE 0)
      /\ tree.nodes[n].line_ticks =
           IF /\ last_call.update_stats
              /\ n = last_call.node
              /\ last_call.src_line # kNoLineNumberInfo
           THEN OneMoreOn(PreLineTicks(n), last_call.src_line)
           ELSE PreLineTicks(n)

\* A path was added without update_stats to a tree with ticks and deopt
\* information pending: it made a node and moved the deopt information.
C35_Witness ==
  /\ last_call.op = "AddPathFromEnd"
  /\ ~last_call.update_stats
  /\ last_call.src_line # kNoLineNumberInfo
  /\ Len(tree.nodes) > Len(pre_tree.nodes)
  /\ tree.nodes[last_call.node].deopt_infos # <<>>
  /\ \E n \in DOMAIN pre_tree.nodes : pre_tree.nodes[n].line_ticks # NoLineTicks

\* ------------------------------------------------- the lock as a whole
\* The threads of the model.
Threads == {"vm", "sampler"}

\* The count is 0 while a thread is between Wait and Signal and 1 when none
\* is; at most one thread is.
LockCount ==
  /\ coll.current_profiles_semaphore_ \in {0, 1}
  /\ coll.current_profiles_semaphore_
       = 1 - Cardinality({t \in Threads : InCriticalSection(t)})

\* A step lowers the count by one when a thread passes Wait, raises it by
\* one when a thread passes Signal, and leaves it alone otherwise; a thread
\* passes Signal only after it passed Wait, and returns only after Signal.
LockStep ==
  \A t \in Threads :
    /\ thread'[t].pc = "locked" /\ thread[t].pc # "locked" =>
         /\ thread[t].pc = "wait"
         /\ coll'.current_profiles_semaphore_
              = coll.current_profiles_semaphore_ - 1
    /\ thread[t].pc = "signal" /\ thread'[t].pc # "signal" =>
         /\ thread'[t].pc \in {"idle", "finish"}
         /\ coll'.current_profiles_semaphore_
              = coll.current_profiles_semaphore_ + 1
    /\ thread'[t].pc = "signal" => thread[t].pc \in {"locked", "signal"}
    /\ thread'[t].pc = "idle" /\ thread[t].pc # "idle" =>
         thread[t].pc \in {"signal", "finish"}
    /\ (\A u \in Threads :
          /\ ~(thread[u].pc = "wait" /\ thread'[u].pc = "locked")
          /\ ~(thread[u].pc = "signal" /\ thread'[u].pc # "signal")) =>
         coll'.current_profiles_semaphore_ = coll.current_profiles_semaphore_

\* C36: every call of StartProfiling, StopProfiling and
\* AddPathToCurrentProfiles passes Wait once and Signal once after it, on
\* every path; the count of the semaphore is always 0 or 1 and is 1 when no
\* call is between Wait and Signal; and with both threads running every
\* call that began returns.
C36_LockDiscipline ==
  /\ []LockCount
  /\ [][LockStep]_vars
  /\ \A t \in Threads : (thread[t].pc # "idle") ~> (thread[t].pc = "idle")

\* StartProfiling returned false at the limit, the semaphore free again,
\* while the sampler is waiting for it.
C36_Witness ==
  /\ thread.vm.op = "StartProfiling"
  /\ thread.vm.pc = "idle"
  /\ ~thread.vm.ret
  /\ Len(coll.current_profiles_) = kMaxSimultaneousProfiles
  /\ coll.current_profiles_semaphore_ = 1
  /\ thread.sampler.pc = "wait"

\* --------------------------------------------------- the ticks as a whole
RECURSIVE LineTickSum(_, _)
\* The sum of the counts of the histogram ticks over the lines of `lines`.
LineTickSum(ticks, lines) ==
  IF lines = {} THEN 0
  ELSE LET l == CHOOSE k \in lines : TRUE
       IN  ticks[l] + LineTickSum(ticks, lines \ {l})

RECURSIVE TotalTicks(_, _)
\* The sum of the self ticks of the first n nodes of the tree t.
TotalTicks(t, n) ==
  IF n = 0 THEN 0 ELSE t.nodes[n].self_ticks + TotalTicks(t, n - 1)

RECURSIVE TotalLineTicks(_, _)
\* The sum of the line ticks of the first n nodes of the tree t.
TotalLineTicks(t, n) ==
  IF n = 0 THEN 0
  ELSE LineTickSum(t.nodes[n].line_ticks, DOMAIN t.nodes[n].line_ticks)
       + TotalLineTicks(t, n - 1)

\* The self ticks and the line ticks of the profile at address p of the
\* collection c; none when there was no profile yet.
ProfileTicks(c, p) ==
  IF p \in DOMAIN c.heap
  THEN [self |-> TotalTicks(c.heap[p].top_down, Len(c.heap[p].top_down.nodes)),
        line |-> TotalLineTicks(c.heap[p].top_down,
                                Len(c.heap[p].top_down.nodes))]
  ELSE [self |-> 0, line |-> 0]

\* The recorded call gave the profile at address p a sample with
\* update_stats.
Ticked37(p) ==
  /\ last_call.op = "AddPathToCurrentProfiles"
  /\ last_call.update_stats
  /\ p \in Members(pre_coll.current_profiles_)

\* C37: the self ticks of the tree of a profile add up to the number of
\* samples with update_stats that were fanned out to it while it was active:
\* a new profile has none, and a call adds one for such a sample and nothing
\* otherwise; the line ticks of a node add up to at most its self ticks, and
\* the line ticks of the tree rise with the self ticks when the sample has a
\* line.
C37_TickConservation ==
  /\ \A p \in DOMAIN coll.heap :
       \A n \in DOMAIN coll.heap[p].top_down.nodes :
         LineTickSum(coll.heap[p].top_down.nodes[n].line_ticks,
                     DOMAIN coll.heap[p].top_down.nodes[n].line_ticks)
           <= coll.heap[p].top_down.nodes[n].self_ticks
  /\ last_call.op # "none" =>
       \A p \in DOMAIN coll.heap :
         /\ ProfileTicks(coll, p).self
              = ProfileTicks(pre_coll, p).self + (IF Ticked37(p) THEN 1 ELSE 0)
         /\ ProfileTicks(coll, p).line
              = ProfileTicks(pre_coll, p).line
                + (IF Ticked37(p) /\ last_call.src_line # kNoLineNumberInfo
                   THEN 1 ELSE 0)

\* Two sessions with ticks, one of them with fewer line ticks than self
\* ticks, were given a sample more.
C37_Witness ==
  /\ last_call.op = "AddPathToCurrentProfiles"
  /\ last_call.update_stats
  /\ Len(pre_coll.current_profiles_) = 2
  /\ \E p \in Members(pre_coll.current_profiles_) :
       /\ ProfileTicks(pre_coll, p).self > ProfileTicks(pre_coll, p).line
       /\ ProfileTicks(coll, p).self = ProfileTicks(pre_coll, p).self + 1

\* C38: two active sessions whose trees are the same - as they are when
\* the sessions are new, and after each sample that both of them got - have
\* the same trees after the next sample: same nodes, entries, ids, self
\* ticks, line ticks and deopt infos, whichever was started first.
C38_CoActiveIdentical ==
  last_call.op = "AddPathToCurrentProfiles" =>
    \A p, q \in Members(pre_coll.current_profiles_) :
      pre_coll.heap[p].top_down = pre_coll.heap[q].top_down =>
        coll.heap[p].top_down = coll.heap[q].top_down

\* ------------------------------------------------ ~ProfileTree: teardown
\* The deletes of the traversal so far, in order, and the nodes they freed.
Deleted == DeleteNodesCallback(traversal.trace)

Freed == {Deleted[i] : i \in DOMAIN Deleted}

\* The nodes below n.
Descendants(n) ==
  ReachableFrom(tree, tree.nodes[n].children, Len(tree.nodes))

\* No node is deleted twice, and every delete comes after the deletes of all
\* the node's descendants.
DeletedInPostOrder ==
  /\ \A i, j \in DOMAIN Deleted : Deleted[i] = Deleted[j] => i = j
  /\ \A i \in DOMAIN Deleted :
       \A d \in Descendants(Deleted[i]) :
         \E j \in 1..(i - 1) : Deleted[j] = d

\* What the next turn of the loop touches is allocated: every node of the
\* stack, the top one's child list that has_current_child and current_child
\* read, and the child the loop descends into.
NoUseAfterFree ==
  LET n == Len(traversal.stack)
      current == traversal.stack[n]
  IN  traversal.phase = "running" /\ n > 0 =>
        /\ \A i \in 1..n : traversal.stack[i].node \notin Freed
        /\ has_current_child(tree, current) =>
             current_child(tree, current) \notin Freed

\* C39: the teardown traversal deletes no node twice, a node only after all
\* its descendants, never reads the child list of a deleted node nor descends
\* into one, and ends with every node of the tree deleted.
C39_Teardown ==
  /\ [](DeletedInPostOrder /\ NoUseAfterFree)
  /\ [](traversal.phase = "done" => Freed = DOMAIN tree.nodes)
  /\ (traversal.phase = "running"
        ~> (traversal.phase = "done" /\ Freed = DOMAIN tree.nodes))

\* A finished teardown of a tree with a grandchild of the root and a node
\* with two children: the grandchild went first, the root last.
C39_Witness ==
  /\ traversal.phase = "done"
  /\ Freed = DOMAIN tree.nodes
  /\ Deleted[Len(Deleted)] = root_
  /\ \E n \in DOMAIN tree.nodes : Len(tree.nodes[n].children_list) = 2
  /\ \E n \in DOMAIN tree.nodes \ {root_} :
       /\ tree.nodes[n].children # {}
       /\ ParentsOf(tree, n) = {root_}

\* ------------------------------------------- RecordTickSample: the offsets
\* The size of the region of code_map_ that holds entry.
RegionSize(entry) ==
  code_map[CHOOSE k \in DOMAIN code_map : code_map[k].entry = entry].size

\* The offset taken for addr lies in the region of the entry it is taken in.
OffsetInRegion(addr, entry) ==
  /\ 0 <= PcOffset(addr, entry)
  /\ PcOffset(addr, entry) < RegionSize(entry)

\* The pc frame was resolved, by pc or by the retry with tos.
PcFrameResolved ==
  /\ Recorded
  /\ TheSample.pc # NULL
  /\ ~InExternalCallback(TheSample)
  /\ PcEntry(code_map, TheSample) # NULL

\* The offset of the pc frame is inside the entry that was found for it.
PcOffsetValid ==
  PcFrameResolved =>
    OffsetInRegion(TheSample.pc, PcEntry(code_map, TheSample))

\* The offset of every resolved stack frame is inside its entry.
StackOffsetsValid ==
  Recorded /\ TheSample.pc # NULL =>
    \A i \in DOMAIN TheSample.stack :
      FindEntry(code_map, TheSample.stack[i]) # NULL =>
        OffsetInRegion(TheSample.stack[i],
                       FindEntry(code_map, TheSample.stack[i]))

\* C40: every offset RecordTickSample uses for a source line or an inline
\* stack satisfies 0 <= offset < size of the entry FindEntry returned, for
\* the pc frame, also when tos resolved it, and for every stack frame.
C40_OffsetValidity == PcOffsetValid /\ StackOffsetsValid

Init ==
  \/ InitCodeMap \/ InitSameFunction \/ InitTree \/ InitProfiles
  \/ InitTraverse \/ InitLock \/ InitGenerator \/ InitLockFair

Next ==
  \/ NextCodeMap \/ NextSameFunction \/ NextTree \/ NextProfiles
  \/ NextTraverse \/ NextLock \/ NextGenerator

Spec == Init /\ [][Next]_vars

====
